---- MODULE Spec2Model ----
(***************************************************************************)
(* A model of age_gui.py: the AgeWorker batch runner (one engine           *)
(* invocation per file, under failure isolation) and the AgeGUI handlers   *)
(* that collect files and keys and start workers.                          *)
(*                                                                         *)
(* Paths and file names are sequences of one-character strings, so that    *)
(* the string operations of the source (endswith, lower, removesuffix,     *)
(* splitext, the disambiguator regex, int()/str()) are computed and not    *)
(* assumed.                                                                 *)
(***************************************************************************)
EXTENDS Integers, Sequences, FiniteSets, TLC

(***************************************************************************)
(* Bounds of the model.                                                    *)
(***************************************************************************)
\* Longest batch a worker is given.
MaxFiles == 2
\* Most AgeWorker threads the window creates.
MaxWorkers == 2
\* The most calls of _find_unique_filename made for one desired path.
MaxCalls == 3
\* Most lines of a key file before lines are inserted.
MaxKeyLines == 2
\* Most lines inserted into a key file.
MaxInserted == 2
\* Most calls of _validate_key_file on one file.
MaxValidations == 3
\* Most paths handed to one call of _get_files_recursive.
MaxDropped == 2

(***************************************************************************)
(* String helpers (Python str methods used by the source).                 *)
(***************************************************************************)
None == "None"
\* None in a variable that holds a path (no path is the empty string).
NoPath == <<>>

\* str.lower() on one character (the alphabet of the model's names).
LowerChar(c) ==
    CASE c = "A" -> "a"
      [] c = "B" -> "b"
      [] c = "G" -> "g"
      [] c = "E" -> "e"
      [] OTHER -> c

Lower(s) == [k \in 1..Len(s) |-> LowerChar(s[k])]

EndsWith(s, suf) ==
    /\ Len(s) >= Len(suf)
    /\ SubSeq(s, Len(s) - Len(suf) + 1, Len(s)) = suf

StartsWith(s, pre) ==
    /\ Len(s) >= Len(pre)
    /\ SubSeq(s, 1, Len(pre)) = pre

\* str.removesuffix: case-sensitive, removes the suffix only when present.
RemoveSuffix(s, suf) ==
    IF Len(suf) > 0 /\ EndsWith(s, suf) THEN SubSeq(s, 1, Len(s) - Len(suf)) ELSE s

\* s.rfind(c): the last index of c in s, 0 when absent.
RFind(s, c) ==
    LET hits == {k \in 1..Len(s) : s[k] = c}
    IN  IF hits = {} THEN 0 ELSE CHOOSE k \in hits : \A j \in hits : j <= k

DotAge == <<".", "a", "g", "e">>
DotDecrypted == <<".", "d", "e", "c", "r", "y", "p", "t", "e", "d">>

\* p.lower().endswith(".age"), the extension test of the worker and of the GUI.
IsAge(p) == EndsWith(Lower(p), DotAge)

(***************************************************************************)
(* os.path helpers.                                                         *)
(***************************************************************************)
basename(p) == SubSeq(p, RFind(p, "/") + 1, Len(p))

\* head.rstrip('/') of os.path.dirname.
RECURSIVE RStripSep(_)
RStripSep(s) ==
    IF s # <<>> /\ s[Len(s)] = "/" THEN RStripSep(SubSeq(s, 1, Len(s) - 1)) ELSE s

\* os.path.dirname: the head up to the last separator, without trailing
\* separators unless it consists of separators only.
dirname(p) ==
    LET head == SubSeq(p, 1, RFind(p, "/"))
    IN  IF \A k \in 1..Len(head) : head[k] = "/" THEN head ELSE RStripSep(head)

\* os.path.join(directory, name).
join(d, n) ==
    IF StartsWith(n, <<"/">>) THEN n
    ELSE IF d = <<>> \/ d[Len(d)] = "/" THEN d \o n
    ELSE d \o <<"/">> \o n

\* os.path.splitext on a file name: the extension starts at the last dot,
\* unless only dots precede it.
splitext(n) ==
    LET d == RFind(n, ".")
    IN  IF d > 0 /\ \E k \in 1..(d - 1) : n[k] # "."
        THEN <<SubSeq(n, 1, d - 1), SubSeq(n, d, Len(n))>>
        ELSE <<n, <<>>>>

Digits == <<"0", "1", "2", "3", "4", "5", "6", "7", "8", "9">>

IsDigit(c) == \E d \in 1..10 : Digits[d] = c

DigitVal(c) == (CHOOSE d \in 1..10 : Digits[d] = c) - 1

\* int(s) for a string of decimal digits.
RECURSIVE StrToInt(_)
StrToInt(s) ==
    IF s = <<>> THEN 0
    ELSE 10 * StrToInt(SubSeq(s, 1, Len(s) - 1)) + DigitVal(s[Len(s)])

\* str(n) for n >= 0.
RECURSIVE IntToStr(_)
IntToStr(n) ==
    IF n < 10 THEN <<Digits[n + 1]>>
    ELSE IntToStr(n \div 10) \o <<Digits[(n % 10) + 1]>>

\* Mutant: an existing ` (N)` is never recognised.
SuffixMatchNever(name) == 0 * Len(name)

\* re.search(r' \((\d+)\)$', name): the index where " (N)" starts, 0 for no
\* match.  The match is the suffix " (" digits ")" with at least one digit.
SuffixMatch(name) ==
    LET starts == {k \in 1..Len(name) :
                      /\ Len(name) - k >= 3
                      /\ name[k] = " "
                      /\ name[k + 1] = "("
                      /\ name[Len(name)] = ")"
                      /\ \A j \in (k + 2)..(Len(name) - 1) : IsDigit(name[j])}
    IN  IF starts = {} THEN 0 ELSE CHOOSE k \in starts : \A j \in starts : k <= j

(***************************************************************************)
(* The file system: a function from the paths that exist to their content. *)
(* A content records who wrote the file: kind "pre" (there before the      *)
(* batch), "out" (written by the engine invoked for file index `by`,       *)
(* `partial` when the engine did not complete it) or "recip" (a recipient  *)
(* list written by the worker for file index `by`).                        *)
(***************************************************************************)
Pre == [kind |-> "pre", by |-> 0, partial |-> FALSE]
Out(idx, part) == [kind |-> "out", by |-> idx, partial |-> part]
Recip(idx) == [kind |-> "recip", by |-> idx, partial |-> FALSE]

\* os.path.exists
exists(f, p) == p \in DOMAIN f

\* open(p, 'w') / the engine's -o: creates or truncates p.
WriteFile(f, p, c) == [q \in (DOMAIN f) \cup {p} |-> IF q = p THEN c ELSE f[q]]

\* os.remove
RemoveFile(f, p) == [q \in (DOMAIN f) \ {p} |-> f[q]]

\* os.rename(src, dst)
RenameFile(f, src, dst) ==
    [q \in ((DOMAIN f) \ {src}) \cup {dst} |-> IF q = dst THEN f[src] ELSE f[q]]

(***************************************************************************)
(* AgeWorker._find_unique_filename                                          *)
(***************************************************************************)
\* new_name = f"{base_name_without_suffix} ({start_num}){ext}"
Numbered(directory, base, num, ext) ==
    join(directory, base \o <<" ", "(">> \o IntToStr(num) \o <<")">> \o ext)

\* Mutant: the second candidate is returned without being probed.
ProbeFromOnce(f, directory, base, num, ext) ==
    IF ~exists(f, Numbered(directory, base, num, ext))
    THEN Numbered(directory, base, num, ext)
    ELSE Numbered(directory, base, num + 1, ext)

\* The `while True` probe loop, from start_num upwards.
RECURSIVE ProbeFrom(_, _, _, _, _)
ProbeFrom(f, directory, base, num, ext) ==
    IF ~exists(f, Numbered(directory, base, num, ext))
    THEN Numbered(directory, base, num, ext)
    ELSE ProbeFrom(f, directory, base, num + 1, ext)

find_unique_filename(f, path) ==
    IF ~exists(f, path) THEN path
    ELSE LET directory == dirname(path)
             filename == basename(path)
             name == splitext(filename)[1]
             ext == splitext(filename)[2]
             match == SuffixMatch(name)
             base_name_without_suffix ==
                 IF match > 0 THEN SubSeq(name, 1, match - 1) ELSE name
             start_num ==
                 IF match > 0
                 THEN StrToInt(SubSeq(name, match + 2, Len(name) - 1)) + 1
                 ELSE 1
         IN  ProbeFrom(f, directory, base_name_without_suffix, start_num, ext)

(***************************************************************************)
(* Names used by the model's batches.                                      *)
(***************************************************************************)
A_TXT == <<"a", ".", "t", "x", "t">>
B_TXT == <<"d", "/", "b", ".", "t", "x", "t">>
A_TXT_AGE == A_TXT \o DotAge
A_AGE == <<"a", ".", "a", "g", "e">>
B_UPPER_AGE == <<"B", ".", "A", "G", "E">>
C_PLAIN == <<"c">>
A_PLAIN == <<"a">>
A_PLAIN_1 == <<"a", " ", "(", "1", ")">>

\* Inputs a batch may hold, per mode (dropped files exist at submission).
EncryptInputs == {A_TXT, B_TXT}
DecryptInputs == {A_AGE, B_UPPER_AGE, C_PLAIN}

\* Files that may be on disk before the batch, besides its inputs.
EncryptExtras == {A_TXT_AGE}
DecryptExtras == {A_PLAIN, A_PLAIN_1}

\* Key files on disk and the lines they hold; K_GONE does not exist.
K_PUB == <<"p">>
K_SEC == <<"s">>
K_CMT == <<"m">>
K_GONE == <<"g">>

COMMENT_LINE == <<"#", " ", "k", "e", "y">>
INDENTED_COMMENT == <<" ", "#">>
BLANK_LINE == <<" ">>
PUBLIC_LINE == <<"a", "g", "e", "1", "q">>
SECRET_LINE ==
    <<"A", "G", "E", "-", "S", "E", "C", "R", "E", "T", "-", "K", "E", "Y", "-", "1">>

KeyFiles ==
    [k \in {K_PUB, K_SEC, K_CMT} |->
        CASE k = K_PUB -> <<COMMENT_LINE, PUBLIC_LINE>>
          [] k = K_SEC -> <<COMMENT_LINE, BLANK_LINE, SECRET_LINE>>
          [] k = K_CMT -> <<INDENTED_COMMENT, BLANK_LINE>>]

\* Key lists a worker may be constructed with, per mode.
EncryptKeyLists == {<<>>, <<K_PUB>>, <<K_GONE, K_CMT>>, <<K_GONE, K_PUB>>}
DecryptKeyLists == {<<>>, <<K_SEC>>}

\* str.strip() (the model's whitespace is the blank).
RECURSIVE LStrip(_)
LStrip(line) ==
    IF line # <<>> /\ Head(line) = " " THEN LStrip(Tail(line)) ELSE line

RECURSIVE RStrip(_)
RStrip(line) ==
    IF line # <<>> /\ line[Len(line)] = " "
    THEN RStrip(SubSeq(line, 1, Len(line) - 1))
    ELSE line

Strip(line) == RStrip(LStrip(line))

\* line.strip().startswith('#')
IsCommentLine(line) == StartsWith(Strip(line), <<"#">>)

\* [line for line in key_f if not line.strip().startswith('#')]
RECURSIVE StripComments(_)
StripComments(lines) ==
    IF lines = <<>> THEN <<>>
    ELSE IF IsCommentLine(Head(lines)) THEN StripComments(Tail(lines))
    ELSE <<Head(lines)>> \o StripComments(Tail(lines))

\* "".join(kept lines).strip() is non-empty: some kept line has text.
HasContent(k) ==
    \E n \in 1..Len(StripComments(KeyFiles[k])) : Strip(StripComments(KeyFiles[k])[n]) # <<>>

\* Mutant: the lines of the key files are written without dropping comments.
RecipientsWrittenUnfiltered(keys) ==
    \E n \in 1..Len(keys) : keys[n] \in DOMAIN KeyFiles /\ KeyFiles[keys[n]] # <<>>

\* os.getsize(temp_recipients_file) > 0 after the key loop: some key of the
\* list exists and contributed a line.
RecipientsWritten(keys) ==
    \E n \in 1..Len(keys) : keys[n] \in DOMAIN KeyFiles /\ HasContent(keys[n])

\* os.getpid() as text, and os.getcwd() (paths of the model are relative to it).
Pid == <<"7">>
Cwd == <<>>

\* f".temp_recipients_{os.getpid()}_{i}.txt" in the input's directory.
TempRecipientsName(idx) ==
    <<".", "t", "e", "m", "p", "_", "r", "e", "c", "i", "p", "i", "e", "n", "t", "s", "_">>
    \o Pid \o <<"_">> \o IntToStr(idx) \o <<".", "t", "x", "t">>

TempRecipientsPath(input_path, idx) ==
    join(IF dirname(input_path) # <<>> THEN dirname(input_path) ELSE Cwd,
         TempRecipientsName(idx))

\* temp_output_path = f"{input_path}.age"
EncryptOutputPath(input_path) == input_path \o DotAge

\* output_path_base of the decrypt branch.
OutputPathBase(input_path) ==
    IF IsAge(input_path) THEN RemoveSuffix(input_path, DotAge)
    ELSE input_path \o DotDecrypted

\* temp_decrypt_path = f"{output_path_base}.temp_decrypted_{os.getpid()}"
TempDecryptPath(input_path) ==
    OutputPathBase(input_path)
    \o <<".", "t", "e", "m", "p", "_", "d", "e", "c", "r", "y", "p", "t", "e", "d", "_">>
    \o Pid

(***************************************************************************)
(* Messages of the worker's exceptions.                                    *)
(***************************************************************************)
MSG_NO_RECIPIENT_KEY == "Encryption requires at least one recipient public key."
MSG_NO_VALID_RECIPIENTS == "No valid recipient public keys provided."
MSG_NO_IDENTITY_KEY == "Decryption requires at least one identity key."
MSG_TIMEOUT == "Process timeout (5 minutes limit). Possible age binary hang or pipe issue."
MSG_NO_OUTPUT == "Age returned success, but output file not found"
MSG_SPAWN == "OSError: Popen"
MSG_RENAME == "OSError: rename"
MSG_OPEN == "OSError: open"

\* What the engine may print on stderr: the known phrases its lowercased
\* text contains, and whether the stripped text is empty.
StderrSamples ==
    { [blank |-> TRUE, phrases |-> {}],
      [blank |-> FALSE, phrases |-> {}],
      [blank |-> FALSE, phrases |-> {"no matching keys", "encrypted identity"}] }

\* f"Failed, exit code: {return_code}"
ExitCodeText(code) ==
    CASE code = 1 -> "Failed, exit code: 1"
      [] code = 2 -> "Failed, exit code: 2"

\* detail_msg of the non-zero exit branch: the raw text, or the exit code
\* when it is empty, replaced by the first matching hint.
DetailMsg(err, code) ==
    IF "missing recipients" \in err.phrases
    THEN "Encryption failed: Missing public recipient key."
    ELSE IF "no matching keys" \in err.phrases
    THEN "Decryption failed. Please check the identity keys."
    ELSE IF "encrypted identity" \in err.phrases
    THEN "Decryption failed: Identity key is encrypted. Please use an unencrypted key."
    ELSE IF "error: no secrets provided to decrypt the file" \in err.phrases
    THEN "Decryption failed: No identity key provided that matches the file."
    ELSE IF err.blank THEN ExitCodeText(code)
    ELSE "raw stderr"

(***************************************************************************)
(* Signals (events) a worker emits.                                        *)
(***************************************************************************)
ProcessStarting(name) == [sig |-> "process_starting", name |-> name]
ErrorEvent(name, msg) == [sig |-> "error", name |-> name, msg |-> msg]
ProgressUpdate(num, den) == [sig |-> "progress_update", num |-> num, den |-> den]
Finished(success, total, clear) ==
    [sig |-> "finished", success |-> success, total |-> total, needs_clear |-> clear]

(***************************************************************************)
(* State.                                                                   *)
(***************************************************************************)
VARIABLES
    \* -- AgeWorker (one batch) --
    mode,                 \* self.mode: "encrypt" | "decrypt"
    processed_files,      \* processed_files = self.files_to_process[:]
    keys_to_use,          \* self.keys_to_use
    fs,                   \* the file system
    pc,                   \* the worker's position in run()
    i,                    \* loop index of run(), from 0
    success_count,
    total_files,
    temp_recipients_file, \* None or a path; set in the encrypt branch
    temp_decrypt_path,    \* None (not in locals()) or a path
    proc,                 \* self._process and what the engine did: state "none" |
                          \* "running" | "hung" | "exited" | "killed", returncode, stderr
    return_code,
    stderr_output,
    exc,                  \* the exception in flight, None when there is none
    events,               \* the signals emitted so far, in order
    \* -- AgeGUI (the window, its worker threads, the event loop) --
    gui,                  \* the fields of AgeGUI and of its widgets
    threads,              \* the AgeWorker threads that exist, by id
    queue,                \* worker signals queued for the GUI thread
    dialog,               \* the modal dialog that is open, None when none is
    \* -- AgeWorker._find_unique_filename, called on its own --
    resolver_path,        \* the `path` argument of the calls
    resolver_result,      \* the path the last call returned, None once it is created
    resolver_history,     \* the paths returned so far, in order
    \* -- AgeGUI._validate_key_file, called on its own --
    validator_lines,      \* the lines of the key file
    validator_type,       \* the `key_type` argument of the calls
    validator_results,    \* what the calls returned so far, in order
    \* -- AgeGUI._get_files_recursive, called on its own --
    walk_paths,           \* the `paths` argument
    walk_results          \* the lists the calls returned so far, in order

wvars == <<mode, processed_files, keys_to_use, fs, pc, i, success_count, total_files,
           temp_recipients_file, temp_decrypt_path, proc, return_code, stderr_output,
           exc, events>>

uvars == <<gui, threads, queue, dialog>>

rvars == <<resolver_path, resolver_result, resolver_history>>

kvars == <<validator_lines, validator_type, validator_results>>

gvars == <<walk_paths, walk_results>>

vars == <<wvars, uvars, rvars, kvars, gvars>>

\* The variables of the stand-alone calls, when no such call is made.
NoKeyCalls == validator_lines = <<>> /\ validator_type = None /\ validator_results = <<>>
NoWalkCalls == walk_paths = <<>> /\ walk_results = <<>>

NoText == [blank |-> TRUE, phrases |-> {}]
NoProcess == [state |-> "none", returncode |-> 0, stderr |-> NoText]

\* All sequences over S of length lo..hi.
SeqsOf(S, lo, hi) == UNION {[1..n -> S] : n \in lo..hi}

\* The file system with exactly the given paths, all there before the batch.
DiskOf(paths) == [q \in paths |-> Pre]

Range(seq) == {seq[n] : n \in 1..Len(seq)}

(***************************************************************************)
(* AgeWorker.__init__ and the first lines of run(): a batch of 1..MaxFiles *)
(* existing files (duplicates allowed), a key list and a disk.             *)
(***************************************************************************)
WorkerInit ==
    /\ mode \in {"encrypt", "decrypt"}
    /\ processed_files \in SeqsOf(IF mode = "encrypt" THEN EncryptInputs ELSE DecryptInputs,
                                  1, MaxFiles)
    /\ keys_to_use \in (IF mode = "encrypt" THEN EncryptKeyLists ELSE DecryptKeyLists)
    /\ \E extra \in SUBSET (IF mode = "encrypt" THEN EncryptExtras ELSE DecryptExtras) :
           fs = DiskOf(Range(processed_files) \cup extra)
    /\ pc = "loop"
    /\ i = 0
    /\ success_count = 0
    /\ total_files = Len(processed_files)
    /\ temp_recipients_file = NoPath
    /\ temp_decrypt_path = NoPath
    /\ proc = NoProcess
    /\ return_code = 0
    /\ stderr_output = NoText
    /\ exc = None
    /\ events = <<>>
    /\ gui = None
    /\ threads = <<>>
    /\ queue = <<>>
    /\ dialog = None
    /\ resolver_path = NoPath
    /\ resolver_result = NoPath
    /\ resolver_history = <<>>
    /\ NoKeyCalls
    /\ NoWalkCalls

input_path == processed_files[i + 1]
current_file_name == basename(input_path)

\* The -o argument of the command line built for the current file.
OutputArg == IF mode = "encrypt" THEN EncryptOutputPath(input_path) ELSE temp_decrypt_path

Emit(e) == events' = Append(events, e)

(***************************************************************************)
(* run(): loop head.  Emits process_starting for the next file, or leaves  *)
(* the loop.                                                                *)
(***************************************************************************)
LoopHead ==
    /\ pc = "loop"
    /\ i < Len(processed_files)
    /\ Emit(ProcessStarting(current_file_name))
    /\ pc' = "build"
    /\ UNCHANGED <<mode, processed_files, keys_to_use, fs, i, success_count, total_files,
                   temp_recipients_file, temp_decrypt_path, proc, return_code,
                   stderr_output, exc>>
    /\ UNCHANGED <<uvars, rvars, kvars, gvars>>

(***************************************************************************)
(* run(): the invocation builder, encrypt branch.                          *)
(***************************************************************************)
\* No key at all: raised before the recipient list is created.
BuildEncryptNoKeys ==
    /\ pc = "build"
    /\ mode = "encrypt"
    /\ keys_to_use = <<>>
    /\ exc' = MSG_NO_RECIPIENT_KEY
    /\ pc' = "except"
    /\ UNCHANGED <<mode, processed_files, keys_to_use, fs, i, success_count, total_files,
                   temp_recipients_file, temp_decrypt_path, proc, return_code,
                   stderr_output, events>>
    /\ UNCHANGED <<uvars, rvars, kvars, gvars>>

\* The recipient list is written; an empty list raises.
BuildEncrypt ==
    /\ pc = "build"
    /\ mode = "encrypt"
    /\ keys_to_use # <<>>
    /\ temp_recipients_file' = TempRecipientsPath(input_path, i)
    /\ fs' = WriteFile(fs, TempRecipientsPath(input_path, i), Recip(i))
    /\ IF RecipientsWritten(keys_to_use)
       THEN pc' = "spawn" /\ exc' = exc
       ELSE pc' = "except" /\ exc' = MSG_NO_VALID_RECIPIENTS
    /\ UNCHANGED <<mode, processed_files, keys_to_use, i, success_count, total_files,
                   temp_decrypt_path, proc, return_code, stderr_output, events>>
    /\ UNCHANGED <<uvars, rvars, kvars, gvars>>

\* open(temp_recipients_file, 'w') raises (the directory is not writable).
BuildEncryptOpenFails ==
    /\ pc = "build"
    /\ mode = "encrypt"
    /\ keys_to_use # <<>>
    /\ temp_recipients_file' = TempRecipientsPath(input_path, i)
    /\ exc' = MSG_OPEN
    /\ pc' = "except"
    /\ UNCHANGED <<mode, processed_files, keys_to_use, fs, i, success_count, total_files,
                   temp_decrypt_path, proc, return_code, stderr_output, events>>
    /\ UNCHANGED <<uvars, rvars, kvars, gvars>>

(***************************************************************************)
(* run(): the invocation builder, decrypt branch.                          *)
(***************************************************************************)
BuildDecrypt ==
    /\ pc = "build"
    /\ mode = "decrypt"
    /\ temp_decrypt_path' = TempDecryptPath(input_path)
    /\ IF keys_to_use = <<>>
       THEN pc' = "except" /\ exc' = MSG_NO_IDENTITY_KEY
       ELSE pc' = "spawn" /\ exc' = exc
    /\ UNCHANGED <<mode, processed_files, keys_to_use, fs, i, success_count, total_files,
                   temp_recipients_file, proc, return_code, stderr_output, events>>
    /\ UNCHANGED <<uvars, rvars, kvars, gvars>>

(***************************************************************************)
(* run(): subprocess.Popen.                                                 *)
(***************************************************************************)
Spawn ==
    /\ pc = "spawn"
    /\ proc' = [state |-> "running", returncode |-> 0, stderr |-> NoText]
    /\ pc' = "communicate"
    /\ UNCHANGED <<mode, processed_files, keys_to_use, fs, i, success_count, total_files,
                   temp_recipients_file, temp_decrypt_path, return_code, stderr_output,
                   exc, events>>
    /\ UNCHANGED <<uvars, rvars, kvars, gvars>>

\* Popen raises OSError (the engine cannot be executed).
SpawnFails ==
    /\ pc = "spawn"
    /\ exc' = MSG_SPAWN
    /\ pc' = "except"
    /\ UNCHANGED <<mode, processed_files, keys_to_use, fs, i, success_count, total_files,
                   temp_recipients_file, temp_decrypt_path, proc, return_code,
                   stderr_output, events>>
    /\ UNCHANGED <<uvars, rvars, kvars, gvars>>

(***************************************************************************)
(* The engine process (external, opaque): it may write its -o file, in     *)
(* full or in part, and then exits, or hangs past the timeout.             *)
(***************************************************************************)
EngineWrites(f, written) ==
    IF written = "none" THEN f
    ELSE WriteFile(f, OutputArg, Out(i, written = "partial"))

EngineExit ==
    /\ proc.state = "running"
    /\ \E code \in {0, 1}, written \in {"none", "partial", "full"}, err \in StderrSamples :
          /\ code = 0 => written # "partial" /\ err = NoText
          /\ code # 0 => written # "full"
          /\ fs' = EngineWrites(fs, written)
          /\ proc' = [state |-> "exited", returncode |-> code, stderr |-> err]
    /\ UNCHANGED <<mode, processed_files, keys_to_use, pc, i, success_count, total_files,
                   temp_recipients_file, temp_decrypt_path, return_code, stderr_output,
                   exc, events>>
    /\ UNCHANGED <<uvars, rvars, kvars, gvars>>

EngineHang ==
    /\ proc.state = "running"
    /\ \E written \in {"none", "partial"} :
          /\ fs' = EngineWrites(fs, written)
          /\ proc' = [state |-> "hung", returncode |-> 0, stderr |-> NoText]
    /\ UNCHANGED <<mode, processed_files, keys_to_use, pc, i, success_count, total_files,
                   temp_recipients_file, temp_decrypt_path, return_code, stderr_output,
                   exc, events>>
    /\ UNCHANGED <<uvars, rvars, kvars, gvars>>

(***************************************************************************)
(* run(): communicate(timeout=300).                                         *)
(***************************************************************************)
CommunicateReturn ==
    /\ pc = "communicate"
    /\ proc.state = "exited"
    /\ stderr_output' = proc.stderr
    /\ return_code' = proc.returncode
    /\ pc' = "check"
    /\ UNCHANGED <<mode, processed_files, keys_to_use, fs, i, success_count, total_files,
                   temp_recipients_file, temp_decrypt_path, proc, exc, events>>
    /\ UNCHANGED <<uvars, rvars, kvars, gvars>>

\* Mutant: the timeout is raised without killing the process.
CommunicateTimeoutNoKill ==
    /\ pc = "communicate"
    /\ proc.state = "hung"
    /\ stderr_output' = proc.stderr
    /\ return_code' = 1
    /\ exc' = MSG_TIMEOUT
    /\ pc' = "except"
    /\ UNCHANGED <<mode, processed_files, keys_to_use, fs, i, success_count, total_files,
                   temp_recipients_file, temp_decrypt_path, proc, events>>
    /\ UNCHANGED <<uvars, rvars, kvars, gvars>>

\* Mutant: communicate() is called without a timeout and never returns.
CommunicateWithoutTimeout ==
    /\ pc = "communicate"
    /\ proc.state = "hung"
    /\ UNCHANGED vars

\* subprocess.TimeoutExpired: kill, drain, raise the timeout exception.
CommunicateTimeout ==
    /\ pc = "communicate"
    /\ proc.state = "hung"
    /\ proc' = [proc EXCEPT !.state = "killed"]
    /\ stderr_output' = proc.stderr
    /\ return_code' = 1
    /\ exc' = MSG_TIMEOUT
    /\ pc' = "except"
    /\ UNCHANGED <<mode, processed_files, keys_to_use, fs, i, success_count, total_files,
                   temp_recipients_file, temp_decrypt_path, events>>
    /\ UNCHANGED <<uvars, rvars, kvars, gvars>>

(***************************************************************************)
(* run(): the result of an engine that exited.                             *)
(***************************************************************************)
\* return_code == 0, encrypt: the engine wrote its final path itself.
CheckSuccessEncrypt ==
    /\ pc = "check"
    /\ return_code = 0
    /\ mode = "encrypt"
    /\ success_count' = success_count + 1
    /\ pc' = "finally"
    /\ UNCHANGED <<mode, processed_files, keys_to_use, fs, i, total_files,
                   temp_recipients_file, temp_decrypt_path, proc, return_code,
                   stderr_output, exc, events>>
    /\ UNCHANGED <<uvars, rvars, kvars, gvars>>

\* Mutant: exit code 0 is counted without looking for the temporary output.
CheckSuccessDecryptUnchecked ==
    /\ pc = "check"
    /\ return_code = 0
    /\ mode = "decrypt"
    /\ fs' = IF exists(fs, temp_decrypt_path)
             THEN RenameFile(fs, temp_decrypt_path,
                             find_unique_filename(fs, OutputPathBase(input_path)))
             ELSE fs
    /\ success_count' = success_count + 1
    /\ pc' = "finally"
    /\ UNCHANGED <<mode, processed_files, keys_to_use, i, total_files,
                   temp_recipients_file, temp_decrypt_path, proc, return_code,
                   stderr_output, exc, events>>
    /\ UNCHANGED <<uvars, rvars, kvars, gvars>>

\* return_code == 0, decrypt: the temporary output is renamed to a unique
\* final path; a missing temporary output raises.
CheckSuccessDecrypt ==
    /\ pc = "check"
    /\ return_code = 0
    /\ mode = "decrypt"
    /\ IF exists(fs, temp_decrypt_path)
       THEN /\ \E output_path_base \in {OutputPathBase(input_path)} :
                   fs' = RenameFile(fs, temp_decrypt_path,
                                    find_unique_filename(fs, output_path_base))
            /\ success_count' = success_count + 1
            /\ pc' = "finally"
            /\ exc' = exc
       ELSE /\ exc' = MSG_NO_OUTPUT
            /\ pc' = "except"
            /\ UNCHANGED <<fs, success_count>>
    /\ UNCHANGED <<mode, processed_files, keys_to_use, i, total_files,
                   temp_recipients_file, temp_decrypt_path, proc, return_code,
                   stderr_output, events>>
    /\ UNCHANGED <<uvars, rvars, kvars, gvars>>

\* Mutant: the success is counted before the rename is attempted.
CheckSuccessRenameFailsCounted ==
    /\ pc = "check"
    /\ return_code = 0
    /\ mode = "decrypt"
    /\ exists(fs, temp_decrypt_path)
    /\ success_count' = success_count + 1
    /\ exc' = MSG_RENAME
    /\ pc' = "except"
    /\ UNCHANGED <<mode, processed_files, keys_to_use, fs, i, total_files,
                   temp_recipients_file, temp_decrypt_path, proc, return_code,
                   stderr_output, events>>
    /\ UNCHANGED <<uvars, rvars, kvars, gvars>>

\* os.rename raises OSError.
CheckSuccessRenameFails ==
    /\ pc = "check"
    /\ return_code = 0
    /\ mode = "decrypt"
    /\ exists(fs, temp_decrypt_path)
    /\ exc' = MSG_RENAME
    /\ pc' = "except"
    /\ UNCHANGED <<mode, processed_files, keys_to_use, fs, i, success_count, total_files,
                   temp_recipients_file, temp_decrypt_path, proc, return_code,
                   stderr_output, events>>
    /\ UNCHANGED <<uvars, rvars, kvars, gvars>>

\* return_code != 0: the diagnostic is classified and raised.
CheckFailure ==
    /\ pc = "check"
    /\ return_code # 0
    /\ exc' = DetailMsg(stderr_output, return_code)
    /\ pc' = "except"
    /\ UNCHANGED <<mode, processed_files, keys_to_use, fs, i, success_count, total_files,
                   temp_recipients_file, temp_decrypt_path, proc, return_code,
                   stderr_output, events>>
    /\ UNCHANGED <<uvars, rvars, kvars, gvars>>

(***************************************************************************)
(* run(): except Exception as e.                                            *)
(***************************************************************************)
\* Mutant: the exception escapes to the outer handler and ends the batch.
HandleExceptionAborts ==
    /\ pc = "except"
    /\ Emit(ErrorEvent(<<"Pre-process">>, exc))
    /\ exc' = None
    /\ total_files' = 0
    /\ i' = Len(processed_files)
    /\ pc' = "loop"
    /\ UNCHANGED <<mode, processed_files, keys_to_use, fs, success_count,
                   temp_recipients_file, temp_decrypt_path, proc, return_code,
                   stderr_output>>
    /\ UNCHANGED <<uvars, rvars, kvars, gvars>>

HandleException ==
    /\ pc = "except"
    /\ Emit(ErrorEvent(current_file_name, exc))
    /\ exc' = None
    /\ pc' = "finally"
    /\ UNCHANGED <<mode, processed_files, keys_to_use, fs, i, success_count, total_files,
                   temp_recipients_file, temp_decrypt_path, proc, return_code,
                   stderr_output>>
    /\ UNCHANGED <<uvars, rvars, kvars, gvars>>

(***************************************************************************)
(* run(): finally.  The progress signal is emitted first, then the         *)
(* temporary files are removed.                                            *)
(***************************************************************************)
\* Mutant: the fraction is computed from the index, not from index + 1.
ProgressOfIndex(idx, total) == ProgressUpdate(idx, total)

\* progress = (i + 1) / total_files, kept as numerator and denominator.
ProgressOf(idx, total) == ProgressUpdate(idx + 1, total)

EmitProgress ==
    /\ pc = "finally"
    /\ Emit(ProgressOf(i, total_files))
    /\ pc' = "cleanup"
    /\ UNCHANGED <<mode, processed_files, keys_to_use, fs, i, success_count, total_files,
                   temp_recipients_file, temp_decrypt_path, proc, return_code,
                   stderr_output, exc>>
    /\ UNCHANGED <<uvars, rvars, kvars, gvars>>

\* Mutant: the recipient list is removed only after a success exit code.
RemoveRecipientsOnSuccess(f) ==
    IF temp_recipients_file # NoPath /\ exists(f, temp_recipients_file)
       /\ proc.state = "exited" /\ return_code = 0
    THEN RemoveFile(f, temp_recipients_file)
    ELSE f

\* The recipient list, when one was named and exists.
RemoveRecipients(f) ==
    IF temp_recipients_file # NoPath /\ exists(f, temp_recipients_file)
    THEN RemoveFile(f, temp_recipients_file)
    ELSE f

\* The temporary decrypt output, in decrypt mode, when named and existing.
RemoveTempDecrypt(f) ==
    IF mode = "decrypt" /\ temp_decrypt_path # NoPath /\ exists(f, temp_decrypt_path)
    THEN RemoveFile(f, temp_decrypt_path)
    ELSE f

Cleanup ==
    /\ pc = "cleanup"
    /\ fs' = RemoveTempDecrypt(RemoveRecipients(fs))
    /\ i' = i + 1
    /\ pc' = "loop"
    /\ UNCHANGED <<mode, processed_files, keys_to_use, success_count, total_files,
                   temp_recipients_file, temp_decrypt_path, proc, return_code,
                   stderr_output, exc, events>>
    /\ UNCHANGED <<uvars, rvars, kvars, gvars>>

(***************************************************************************)
(* run(): outer finally, after the loop.                                   *)
(***************************************************************************)
\* Mutant: the outer handler's total_files = 0 is reported after the loop ran.
FinishAborted ==
    /\ pc = "loop"
    /\ i >= Len(processed_files)
    /\ Emit(Finished(success_count, 0, mode = "encrypt"))
    /\ pc' = "done"
    /\ UNCHANGED <<mode, processed_files, keys_to_use, fs, i, success_count, total_files,
                   temp_recipients_file, temp_decrypt_path, proc, return_code,
                   stderr_output, exc>>
    /\ UNCHANGED <<uvars, rvars, kvars, gvars>>

Finish ==
    /\ pc = "loop"
    /\ i >= Len(processed_files)
    /\ Emit(Finished(success_count, total_files, mode = "encrypt"))
    /\ pc' = "done"
    /\ UNCHANGED <<mode, processed_files, keys_to_use, fs, i, success_count, total_files,
                   temp_recipients_file, temp_decrypt_path, proc, return_code,
                   stderr_output, exc>>
    /\ UNCHANGED <<uvars, rvars, kvars, gvars>>

(***************************************************************************)
(* The worker's specification.                                             *)
(***************************************************************************)
Init == WorkerInit

Next ==
    \/ LoopHead
    \/ BuildEncryptNoKeys
    \/ BuildEncrypt
    \/ BuildEncryptOpenFails
    \/ BuildDecrypt
    \/ Spawn
    \/ SpawnFails
    \/ EngineExit
    \/ EngineHang
    \/ CommunicateReturn
    \/ CommunicateTimeout
    \/ CheckSuccessEncrypt
    \/ CheckSuccessDecrypt
    \/ CheckSuccessRenameFails
    \/ CheckFailure
    \/ HandleException
    \/ EmitProgress
    \/ Cleanup
    \/ Finish

Spec == Init /\ [][Next]_vars

(***************************************************************************)
(* The disk as the GUI sees it: the files that exist, in os.walk order.    *)
(* Directories are the proper prefixes of these paths.                     *)
(***************************************************************************)
D_DIR == <<"d">>
DOT_H == <<".", "h">>
D_HIDDEN_X == <<"d", "/", ".", "s", "/", "x", ".", "a", "g", "e">>

TreeFiles == <<A_TXT, A_AGE, B_UPPER_AGE, DOT_H, B_TXT, D_HIDDEN_X, K_PUB, K_SEC, K_CMT>>

isfile(p) == p \in Range(TreeFiles)
isdir(p) == \E f \in Range(TreeFiles) : StartsWith(f, p \o <<"/">>)
path_exists(p) == isfile(p) \/ isdir(p)

\* The files os.walk(p) yields that pass `not file_name.startswith('.')`.
WalkVisible(p) ==
    SelectSeq(TreeFiles,
              LAMBDA f : StartsWith(f, p \o <<"/">>) /\ ~StartsWith(basename(f), <<".">>))

(***************************************************************************)
(* AgeGUI._get_files_recursive                                              *)
(***************************************************************************)
RECURSIVE get_files_recursive(_)
get_files_recursive(paths) ==
    IF paths = <<>> THEN <<>>
    ELSE LET path == Head(paths)
             rest == get_files_recursive(Tail(paths))
         IN  IF StartsWith(basename(path), <<".">>) THEN rest
             ELSE IF isfile(path) THEN <<path>> \o rest
             ELSE IF isdir(path) THEN WalkVisible(path) \o rest
             ELSE rest

(***************************************************************************)
(* AgeGUI._validate_key_file                                                *)
(***************************************************************************)
\* The lines of a file that is read as a key file.
FileLines(p) == IF p \in DOMAIN KeyFiles THEN KeyFiles[p] ELSE <<<<"x">>>>

\* Mutant: only blank lines are dropped, comments are kept.
RECURSIVE ContentLinesWithComments(_)
ContentLinesWithComments(lines) ==
    IF lines = <<>> THEN <<>>
    ELSE IF Strip(Head(lines)) # <<>>
    THEN <<Strip(Head(lines))>> \o ContentLinesWithComments(Tail(lines))
    ELSE ContentLinesWithComments(Tail(lines))

\* [line.strip() for line in f if line.strip() and not line.strip().startswith('#')]
RECURSIVE ContentLines(_)
ContentLines(lines) ==
    IF lines = <<>> THEN <<>>
    ELSE IF Strip(Head(lines)) # <<>> /\ ~StartsWith(Strip(Head(lines)), <<"#">>)
    THEN <<Strip(Head(lines))>> \o ContentLines(Tail(lines))
    ELSE ContentLines(Tail(lines))

AGE1 == <<"a", "g", "e", "1">>
AGE_SECRET_KEY == <<"A", "G", "E", "-", "S", "E", "C", "R", "E", "T", "-", "K", "E", "Y", "-">>

\* The body of the `with` block: the verdict on the lines read.
validate_key_lines(lines, key_type) ==
    IF ContentLines(lines) = <<>> THEN FALSE
    ELSE IF key_type = "public" THEN StartsWith(ContentLines(lines)[1], AGE1)
    ELSE IF key_type = "private" THEN StartsWith(ContentLines(lines)[1], AGE_SECRET_KEY)
    ELSE FALSE

\* open() raises for a missing path or a directory: the result is False.
validate_key_file(file_path, key_type) ==
    IF ~isfile(file_path) THEN FALSE
    ELSE validate_key_lines(FileLines(file_path), key_type)

(***************************************************************************)
(* AgeGUI: texts shown by the widgets.  A text is the key of STRINGS and   *)
(* the values formatted into it.                                            *)
(***************************************************************************)
Text(key, msg, n) == [text |-> key, msg |-> msg, n |-> n, name |-> <<>>]
TextName(key, name) == [text |-> key, msg |-> "", n |-> 0, name |-> name]
StatusReady(n) == Text("STATUS_READY", "", n)

\* The persisted settings: Keys/RememberKeys and Keys/Paths (joined by ';').
RECURSIVE JoinPaths(_)
JoinPaths(list) ==
    IF list = <<>> THEN <<>>
    ELSE IF Len(list) = 1 THEN list[1]
    ELSE list[1] \o <<";">> \o JoinPaths(Tail(list))

\* key_paths_str.split(';')
RECURSIVE SplitPaths(_)
SplitPaths(str) ==
    LET cut == {k \in 1..Len(str) : str[k] = ";"}
    IN  IF cut = {} THEN <<str>>
        ELSE LET k == CHOOSE c \in cut : \A d \in cut : c <= d
             IN  <<SubSeq(str, 1, k - 1)>> \o SplitPaths(SubSeq(str, k + 1, Len(str)))

\* AgeGUI._save_key_settings
save_key_settings(g, keys_to_save, remember) ==
    [g EXCEPT !.settings = [remember |-> remember,
                            paths |-> IF remember THEN JoinPaths(keys_to_save) ELSE <<>>]]

(***************************************************************************)
(* SingleDropTarget.set_mode, on the window's state g.  file_count is      *)
(* NoCount (None) or <<n>>.                                                 *)
(***************************************************************************)
NoCount == <<>>

set_mode(g, new_mode, msg, n, file_count) ==
    LET new_text ==
            CASE new_mode = "file" ->
                    IF g.current_action_mode = "decrypt"
                    THEN Text("DROP_FILE_DECRYPT", "", 0)
                    ELSE Text("DROP_FILE_ENCRYPT", "", 0)
              [] new_mode = "key" ->
                    IF g.current_action_mode = "encrypt"
                    THEN Text("DROP_KEY_PUBLIC", "", 0)
                    ELSE Text("DROP_KEY_PRIVATE", "", 0)
              [] new_mode = "finished" -> Text("DROP_FINISHED", msg, n)
              [] new_mode = "error" -> Text("DROP_ERROR", msg, n)
        new_count ==
            IF new_mode = "key" /\ file_count # NoCount
            THEN [shown |-> TRUE, n |-> file_count[1]]
            ELSE [shown |-> FALSE, n |-> 0]
    IN  [g EXCEPT !.drop_mode = new_mode, !.drop_text = new_text, !.count_label = new_count]

(***************************************************************************)
(* The world the GUI handlers act on: the window and its threads.          *)
(***************************************************************************)
World(g, ths) == [gui |-> g, threads |-> ths]

\* self.worker is not None and self.worker.isRunning()
is_running(w) ==
    /\ w.gui.worker # 0
    /\ w.threads[w.gui.worker].running

\* AgeGUI._update_ui_state
update_ui_state(w) ==
    [w EXCEPT !.gui.btn_clear_keys_enabled = ~is_running(w)]

\* Mutant: the lists are emptied in place (list.clear()), so the worker
\* that was given the same list objects sees them emptied too.
reset_state_ui_in_place(w, clear_keys) ==
    LET g1 == [w.gui EXCEPT !.files_to_process = <<>>,
                            !.key_pending = FALSE,
                            !.current_action_mode = None,
                            !.keys = <<>>,
                            !.progress = 0,
                            !.drop_enabled = TRUE,
                            !.btn_clear_enabled = TRUE]
        g2 == set_mode(g1, "file", "", 0, NoCount)
        g3 == IF clear_keys
              THEN save_key_settings([g2 EXCEPT !.recipients_keys = <<>>], <<>>, FALSE)
              ELSE g2
        g4 == [g3 EXCEPT !.status = StatusReady(Len(g3.recipients_keys))]
        ths == [t \in DOMAIN w.threads |->
                   IF t = w.gui.worker
                   THEN [w.threads[t] EXCEPT !.files_to_process = <<>>, !.keys_to_use = <<>>]
                   ELSE w.threads[t]]
    IN  update_ui_state([gui |-> g4, threads |-> ths])

\* AgeGUI._reset_state_ui
reset_state_ui(w, clear_keys) ==
    LET g1 == [w.gui EXCEPT !.files_to_process = <<>>,
                            !.key_pending = FALSE,
                            !.current_action_mode = None,
                            !.keys = <<>>,
                            !.progress = 0,
                            !.drop_enabled = TRUE,
                            !.btn_clear_enabled = TRUE]
        g2 == set_mode(g1, "file", "", 0, NoCount)
        g3 == IF clear_keys
              THEN save_key_settings([g2 EXCEPT !.recipients_keys = <<>>], <<>>, FALSE)
              ELSE g2
        g4 == [g3 EXCEPT !.status = StatusReady(Len(g3.recipients_keys))]
    IN  update_ui_state([w EXCEPT !.gui = g4])

(***************************************************************************)
(* AgeGUI._start_process: locks the controls, creates the AgeWorker from   *)
(* the window's mode, files and keys, and starts it.                       *)
(***************************************************************************)
\* `threads` keeps every AgeWorker the window has created, in order.
FreeId(ths) == Len(ths) + 1

\* AgeWorker.__init__ followed by start().
NewWorker(g) ==
    [mode |-> g.current_action_mode,
     files_to_process |-> g.files_to_process,
     keys_to_use |-> g.keys,
     done_files |-> 0,
     success_count |-> 0,
     finished_emitted |-> FALSE,
     running |-> TRUE]

start_process(w) ==
    LET w1 == update_ui_state([w EXCEPT !.gui.drop_enabled = FALSE,
                                        !.gui.btn_clear_enabled = FALSE,
                                        !.gui.btn_clear_keys_enabled = FALSE])
        id == FreeId(w1.threads)
    IN  [gui |-> [w1.gui EXCEPT !.progress = -1, !.worker = id],
         threads |-> Append(w1.threads, NewWorker(w1.gui))]

(***************************************************************************)
(* AgeGUI._on_files_dropped                                                 *)
(***************************************************************************)
\* Mutant: only the last collected file is tested.
AllAgeLastOnly(files) == IsAge(files[Len(files)])

AllAge(files) == \A n \in 1..Len(files) : IsAge(files[n])
SomeAge(files) == \E n \in 1..Len(files) : IsAge(files[n])

\* A test of the first collected file against the rest only.
MixedFilesFirstOnly(files) == IsAge(files[1]) /\ ~AllAge(files)

\* The drop is refused as mixed: some, but not all, collected files are .age.
MixedFiles(files) == SomeAge(files) /\ ~AllAge(files)

on_files_dropped(w, paths) ==
    LET collected_files == get_files_recursive(paths)
        has_age_files == SomeAge(collected_files)
        g == w.gui
    IN  IF g.key_pending THEN w
        ELSE IF collected_files = <<>>
        THEN [w EXCEPT !.gui = [set_mode(g, "error", "ERROR_DECRYPT_MULTI", 0, NoCount)
                                   EXCEPT !.status = Text("STATUS_TERMINATED", "", 0)]]
        ELSE IF MixedFiles(collected_files)
        THEN [w EXCEPT !.gui = [set_mode(g, "error", "ERROR_MIXED_FILES", 0, NoCount)
                                   EXCEPT !.status = Text("STATUS_TERMINATED", "", 0)]]
        ELSE LET action_mode == IF has_age_files THEN "decrypt" ELSE "encrypt"
                 g1 == [g EXCEPT !.files_to_process = collected_files,
                                 !.current_action_mode = action_mode]
                 total == Len(collected_files)
             IN  IF action_mode = "decrypt"
                 THEN IF g1.keys = <<>>
                      THEN [w EXCEPT !.gui =
                               [set_mode([g1 EXCEPT !.key_pending = TRUE], "key", "", 0, <<total>>)
                                  EXCEPT !.status = Text("STATUS_DECRYPT_MODE", "", 0)]]
                      ELSE start_process(
                               [w EXCEPT !.gui =
                                  [g1 EXCEPT !.status =
                                      Text("STATUS_START_PROCESS", "Decryption", total)]])
                 ELSE IF g1.recipients_keys = <<>>
                      THEN [w EXCEPT !.gui =
                               [set_mode([g1 EXCEPT !.key_pending = TRUE], "key", "", 0, <<total>>)
                                  EXCEPT !.status = Text("STATUS_ENCRYPT_MODE", "", 0)]]
                      ELSE start_process(
                               [w EXCEPT !.gui =
                                  [g1 EXCEPT !.keys = g1.recipients_keys,
                                             !.status =
                                      Text("STATUS_START_PROCESS", "Encryption", total)]])

(***************************************************************************)
(* AgeGUI._on_keys_dropped_in_key_mode                                      *)
(***************************************************************************)
KeyTypeOf(g) == IF g.current_action_mode = "encrypt" THEN "public" ELSE "private"

\* valid_keys: the dropped files that validate, in order.
ValidKeys(paths, key_type) ==
    SelectSeq(paths, LAMBDA q : path_exists(q) /\ isfile(q) /\ validate_key_file(q, key_type))

\* invalid_keys: the names of the dropped files that do not validate.
InvalidKeys(paths, key_type) ==
    SelectSeq(paths, LAMBDA q : path_exists(q) /\ isfile(q) /\ ~validate_key_file(q, key_type))

\* After the error dialog of an invalid key is closed.
on_keys_invalid_closed(w) ==
    [w EXCEPT !.gui = [set_mode(w.gui, "key", "", 0, NoCount)
                          EXCEPT !.status = Text("STATUS_KEY_LOAD_FAIL", "", 0)]]

\* No file among the dropped paths.
on_keys_none_valid(w) ==
    [w EXCEPT !.gui = [set_mode(w.gui, "error", "ERROR_INVALID_KEY_PATH", 0, NoCount)
                          EXCEPT !.status = Text("STATUS_KEY_LOAD_FAIL", "", 0),
                                 !.drop_enabled = TRUE]]

\* Mutant: the dropped keys are saved whatever the mode.
on_keys_valid_saved(w, valid_keys) ==
    LET g == w.gui
        total == Len(g.files_to_process)
        g1 == [g EXCEPT !.keys = valid_keys, !.key_pending = FALSE]
        g2 == [save_key_settings([g1 EXCEPT !.recipients_keys = valid_keys],
                                 valid_keys, TRUE)
                  EXCEPT !.status = Text("STATUS_START_PROCESS", "Encryption", total)]
    IN  start_process([w EXCEPT !.gui = g2])

\* Step 2 of the handler: the valid keys are taken and the batch starts.
on_keys_valid(w, valid_keys) ==
    LET g == w.gui
        total == Len(g.files_to_process)
        g1 == [g EXCEPT !.keys = valid_keys, !.key_pending = FALSE]
        g2 == IF g1.current_action_mode = "encrypt"
              THEN [save_key_settings([g1 EXCEPT !.recipients_keys = valid_keys],
                                      valid_keys, TRUE)
                       EXCEPT !.status = Text("STATUS_START_PROCESS", "Encryption", total)]
              ELSE IF g1.current_action_mode = "decrypt"
              THEN [g1 EXCEPT !.status = Text("STATUS_START_PROCESS", "Decryption", total)]
              ELSE g1
    IN  start_process([w EXCEPT !.gui = g2])

(***************************************************************************)
(* AgeGUI._on_finished and the other slots of the worker's signals.        *)
(***************************************************************************)
\* Mutant: a fully successful batch leaves self.keys as it is.
on_finished_keeps_keys(w, success, total, needs_clear) ==
    LET w1 == update_ui_state([w EXCEPT !.gui.progress = 100,
                                        !.gui.drop_enabled = TRUE,
                                        !.gui.btn_clear_enabled = TRUE,
                                        !.gui.btn_clear_keys_enabled = TRUE])
        g == w1.gui
    IN  IF total = 0
        THEN reset_state_ui(
                 [w1 EXCEPT !.gui = [set_mode(g, "error", "STATUS_TERMINATED", 0, NoCount)
                                        EXCEPT !.status = Text("STATUS_TERMINATED", "", 0)]],
                 FALSE)
        ELSE IF success = total
        THEN LET encrypting == g.current_action_mode = "encrypt"
                 display == IF encrypting THEN "MODE_ENCRYPT_DISPLAY"
                            ELSE "MODE_DECRYPT_DISPLAY"
                 key_count == IF encrypting THEN Len(g.recipients_keys) ELSE Len(g.keys)
             IN  [w1 EXCEPT !.gui =
                     [set_mode(g, "finished", display, 0, NoCount)
                         EXCEPT !.status = Text("STATUS_FINISHED_KEYS", "", key_count),
                                !.files_to_process = <<>>]]
        ELSE reset_state_ui(
                 [w1 EXCEPT !.gui = [set_mode(g, "error", "ERROR_FILES_FAIL", total - success, NoCount)
                                        EXCEPT !.status = Text("STATUS_TERMINATED", "", 0)]],
                 FALSE)

on_finished(w, success, total, needs_clear) ==
    LET w1 == update_ui_state([w EXCEPT !.gui.progress = 100,
                                        !.gui.drop_enabled = TRUE,
                                        !.gui.btn_clear_enabled = TRUE,
                                        !.gui.btn_clear_keys_enabled = TRUE])
        g == w1.gui
    IN  IF total = 0
        THEN reset_state_ui(
                 [w1 EXCEPT !.gui = [set_mode(g, "error", "STATUS_TERMINATED", 0, NoCount)
                                        EXCEPT !.status = Text("STATUS_TERMINATED", "", 0)]],
                 FALSE)
        ELSE IF success = total
        THEN LET encrypting == g.current_action_mode = "encrypt"
                 display == IF encrypting THEN "MODE_ENCRYPT_DISPLAY"
                            ELSE "MODE_DECRYPT_DISPLAY"
                 key_count == IF encrypting THEN Len(g.recipients_keys) ELSE Len(g.keys)
             IN  [w1 EXCEPT !.gui =
                     [set_mode(g, "finished", display, 0, NoCount)
                         EXCEPT !.status = Text("STATUS_FINISHED_KEYS", "", key_count),
                                !.files_to_process = <<>>,
                                !.keys = <<>>]]
        ELSE reset_state_ui(
                 [w1 EXCEPT !.gui = [set_mode(g, "error", "ERROR_FILES_FAIL", total - success, NoCount)
                                        EXCEPT !.status = Text("STATUS_TERMINATED", "", 0)]],
                 FALSE)

\* AgeGUI._on_process_starting
on_process_starting(w, file_name) ==
    [w EXCEPT !.gui.status = TextName("STATUS_PROCESSING_FILE", file_name)]

\* AgeGUI._update_progress: int(val * 100)
update_progress(w, num, den) ==
    [w EXCEPT !.gui.progress = (num * 100) \div den]

\* The slot connected to the signal at the head of the queue.  report_error
\* only shows a message box.
Slot(w, signal) ==
    CASE signal.sig = "finished" ->
            on_finished(w, signal.success, signal.total, signal.needs_clear)
      [] signal.sig = "process_starting" -> on_process_starting(w, signal.name)
      [] signal.sig = "progress_update" -> update_progress(w, signal.num, signal.den)
      [] signal.sig = "error" -> w

(***************************************************************************)
(* AgeGUI.__init__: the window after construction, with the keys that      *)
(* _load_key_settings restores from the settings file.                     *)
(***************************************************************************)
\* Settings files the application may find at startup.
SettingsSamples ==
    { [remember |-> FALSE, paths |-> <<>>],
      [remember |-> TRUE, paths |-> JoinPaths(<<K_PUB>>)],
      [remember |-> TRUE, paths |-> JoinPaths(<<K_GONE, K_SEC>>)] }

\* AgeGUI._load_key_settings
load_key_settings(g) ==
    IF ~g.settings.remember THEN [g EXCEPT !.recipients_keys = <<>>]
    ELSE LET key_paths ==
                 SelectSeq(SplitPaths(g.settings.paths),
                           LAMBDA q : path_exists(q) /\ q # <<>>
                                      /\ validate_key_file(q, "public"))
         IN  IF key_paths # <<>>
             THEN [g EXCEPT !.recipients_keys = key_paths,
                            !.status = Text("STATUS_LOADED_KEYS", "", Len(key_paths))]
             ELSE save_key_settings(
                      [g EXCEPT !.recipients_keys = <<>>, !.status = StatusReady(0)],
                      <<>>, FALSE)

\* The fields set by __init__ and _init_ui, before the settings are loaded.
NewWindow(settings) ==
    [keys |-> <<>>,
     recipients_keys |-> <<>>,
     files_to_process |-> <<>>,
     current_action_mode |-> None,
     key_pending |-> FALSE,
     worker |-> 0,
     drop_mode |-> "file",
     drop_text |-> Text("DROP_FILE_ENCRYPT", "", 0),
     count_label |-> [shown |-> FALSE, n |-> 0],
     drop_enabled |-> TRUE,
     btn_clear_enabled |-> TRUE,
     btn_clear_keys_enabled |-> TRUE,
     status |-> StatusReady(0),
     progress |-> 0,
     settings |-> settings]

GuiInit ==
    /\ \E settings \in SettingsSamples : gui = load_key_settings(NewWindow(settings))
    /\ threads = <<>>
    /\ queue = <<>>
    /\ dialog = None
    /\ mode = None
    /\ processed_files = <<>>
    /\ keys_to_use = <<>>
    /\ fs = <<>>
    /\ pc = "idle"
    /\ i = 0
    /\ success_count = 0
    /\ total_files = 0
    /\ temp_recipients_file = NoPath
    /\ temp_decrypt_path = NoPath
    /\ proc = NoProcess
    /\ return_code = 0
    /\ stderr_output = NoText
    /\ exc = None
    /\ events = <<>>
    /\ resolver_path = NoPath
    /\ resolver_result = NoPath
    /\ resolver_history = <<>>
    /\ NoKeyCalls
    /\ NoWalkCalls

\* What the user may drag onto the window (local URLs).
DropChoices ==
    { <<A_TXT>>, <<B_TXT, A_TXT>>, <<A_AGE, B_UPPER_AGE>>, <<A_TXT, A_AGE>>, <<D_DIR>>,
      <<DOT_H>>, <<K_PUB>>, <<K_SEC>>, <<K_PUB, K_CMT>>, <<K_GONE>> }

SetWorld(w) == gui' = w.gui /\ threads' = w.threads

\* dropEvent: a finished or error display is reset before the drop is taken.
AfterDropReset(w) ==
    IF w.gui.drop_mode \in {"finished", "error"} THEN reset_state_ui(w, FALSE) ELSE w

(***************************************************************************)
(* SingleDropTarget.dropEvent in file mode: files_dropped.                 *)
(***************************************************************************)
files_dropped(urls) ==
    LET paths == SelectSeq(urls, path_exists)
        w == AfterDropReset(World(gui, threads))
    IN  /\ paths # <<>>
        /\ w.gui.drop_mode = "file"
        /\ SetWorld(on_files_dropped(w, paths))

DropFiles ==
    /\ dialog = None
    /\ gui.drop_enabled
    /\ Len(threads) < MaxWorkers
    /\ \E urls \in DropChoices : files_dropped(urls)
    /\ UNCHANGED <<queue, dialog, wvars, rvars, kvars, gvars>>

(***************************************************************************)
(* SingleDropTarget.dropEvent in key mode: keys_dropped.  An invalid key   *)
(* opens the error dialog; the handler goes on when it is closed.          *)
(***************************************************************************)
DropKeys ==
    /\ dialog = None
    /\ gui.drop_enabled
    /\ Len(threads) < MaxWorkers
    /\ \E urls \in DropChoices :
          LET paths == SelectSeq(urls, path_exists)
              w == World(gui, threads)
              key_type == KeyTypeOf(gui)
          IN  /\ paths # <<>>
              /\ gui.drop_mode = "key"
              /\ IF ~gui.key_pending
                 THEN UNCHANGED <<gui, threads, dialog>>
                 ELSE IF InvalidKeys(paths, key_type) # <<>>
                 THEN dialog' = "invalid_keys" /\ UNCHANGED <<gui, threads>>
                 ELSE IF ValidKeys(paths, key_type) = <<>>
                 THEN SetWorld(on_keys_none_valid(w)) /\ dialog' = dialog
                 ELSE SetWorld(on_keys_valid(w, ValidKeys(paths, key_type)))
                      /\ dialog' = dialog
    /\ UNCHANGED <<queue, wvars, rvars, kvars, gvars>>

CloseInvalidKeysDialog ==
    /\ dialog = "invalid_keys"
    /\ SetWorld(on_keys_invalid_closed(World(gui, threads)))
    /\ dialog' = None
    /\ UNCHANGED <<queue, wvars, rvars, kvars, gvars>>

(***************************************************************************)
(* The Clear button: _reset_state_ui(clear_keys=False).                    *)
(***************************************************************************)
ClickClear ==
    /\ dialog = None
    /\ gui.btn_clear_enabled
    /\ SetWorld(reset_state_ui(World(gui, threads), FALSE))
    /\ UNCHANGED <<queue, dialog, wvars, rvars, kvars, gvars>>

(***************************************************************************)
(* The Clear Keys button: AgeGUI._clear_keys_action, up to the question    *)
(* dialog, and the rest of it once the user has answered.                  *)
(***************************************************************************)
ClickClearKeys ==
    /\ dialog = None
    /\ gui.btn_clear_keys_enabled
    /\ IF gui.recipients_keys = <<>>
       THEN gui' = [gui EXCEPT !.status = StatusReady(0)] /\ dialog' = dialog
       ELSE gui' = gui /\ dialog' = "confirm_clear_keys"
    /\ UNCHANGED <<threads, queue, wvars, rvars, kvars, gvars>>

AnswerClearKeys ==
    /\ dialog = "confirm_clear_keys"
    /\ \E yes \in BOOLEAN :
          IF yes THEN SetWorld(reset_state_ui(World(gui, threads), TRUE))
          ELSE UNCHANGED <<gui, threads>>
    /\ dialog' = None
    /\ UNCHANGED <<queue, wvars, rvars, kvars, gvars>>

(***************************************************************************)
(* The GUI thread's event loop delivers the next queued worker signal to   *)
(* its slot (also while a modal dialog runs its own loop).                 *)
(***************************************************************************)
DispatchSignal ==
    /\ queue # <<>>
    /\ SetWorld(Slot(World(gui, threads), Head(queue)))
    /\ queue' = Tail(queue)
    /\ UNCHANGED <<dialog, wvars, rvars, kvars, gvars>>

(***************************************************************************)
(* A worker thread of the window, one file per step: AgeWorker.run emits   *)
(* process_starting, an error when the file fails, and progress_update;    *)
(* after the last file it emits finished, and then the thread ends.        *)
(***************************************************************************)
WorkerProcessFile ==
    \E id \in DOMAIN threads, ok \in BOOLEAN :
       LET th == threads[id]
           file_name == basename(th.files_to_process[th.done_files + 1])
           total == Len(th.files_to_process)
       IN  /\ th.running
           /\ th.done_files < total
           /\ queue' = queue
                 \o <<ProcessStarting(file_name)>>
                 \o (IF ok THEN <<>> ELSE <<ErrorEvent(file_name, "raw stderr")>>)
                 \o <<ProgressOf(th.done_files, total)>>
           /\ threads' = [threads EXCEPT
                             ![id].done_files = @ + 1,
                             ![id].success_count = @ + (IF ok THEN 1 ELSE 0)]
           /\ UNCHANGED <<gui, dialog, wvars, rvars, kvars, gvars>>

WorkerEmitFinished ==
    \E id \in DOMAIN threads :
       LET th == threads[id]
       IN  /\ th.running
           /\ th.done_files = Len(th.files_to_process)
           /\ ~th.finished_emitted
           /\ queue' = Append(queue, Finished(th.success_count, Len(th.files_to_process),
                                              th.mode = "encrypt"))
           /\ threads' = [threads EXCEPT ![id].finished_emitted = TRUE]
           /\ UNCHANGED <<gui, dialog, wvars, rvars, kvars, gvars>>

\* run() has returned: the thread is no longer running.
WorkerExit ==
    \E id \in DOMAIN threads :
       /\ threads[id].running
       /\ threads[id].finished_emitted
       /\ threads' = [threads EXCEPT ![id].running = FALSE]
       /\ UNCHANGED <<gui, queue, dialog, wvars, rvars, kvars, gvars>>

(***************************************************************************)
(* The window's specification.                                             *)
(***************************************************************************)
NextUI ==
    \/ DropFiles
    \/ DropKeys
    \/ CloseInvalidKeysDialog
    \/ ClickClear
    \/ ClickClearKeys
    \/ AnswerClearKeys
    \/ DispatchSignal
    \/ WorkerProcessFile
    \/ WorkerEmitFinished
    \/ WorkerExit

SpecUI == GuiInit /\ [][NextUI]_vars

(***************************************************************************)
(* The worker thread keeps running: run() goes on to its next statement,   *)
(* and the engine process either exits or hangs until communicate() times  *)
(* out and it is killed.  Every step of Next changes pc or proc.           *)
(***************************************************************************)
SpecFair == Init /\ [][Next]_vars /\ WF_<<pc, proc>>(Next)

(***************************************************************************)
(* AgeWorker._find_unique_filename on its own: a caller resolves the same   *)
(* desired path again and again and creates the file at each path it gets, *)
(* as run() does with os.rename.                                            *)
(***************************************************************************)
X == <<"x">>
X_1 == <<"x", " ", "(", "1", ")">>
X_2 == <<"x", " ", "(", "2", ")">>
X_3 == <<"x", " ", "(", "3", ")">>
X_9 == <<"x", " ", "(", "9", ")">>
X_10 == <<"x", " ", "(", "1", "0", ")">>
X_01 == <<"x", " ", "(", "0", "1", ")">>
D_X_1_T == <<"d", "/", "x", " ", "(", "1", ")", ".", "t">>
D_X_2_T == <<"d", "/", "x", " ", "(", "2", ")", ".", "t">>

\* The desired paths asked for, and the files that may be on disk before.
ResolverPaths == {X, X_1, X_9, X_01, D_X_1_T}
ResolverNames == {X, X_1, X_2, X_3, X_9, X_10, X_01, D_X_1_T, D_X_2_T}

ResolverInit ==
    /\ resolver_path \in ResolverPaths
    /\ \E present \in SUBSET ResolverNames : fs = DiskOf(present)
    /\ resolver_result = NoPath
    /\ resolver_history = <<>>
    /\ NoKeyCalls
    /\ NoWalkCalls
    /\ gui = None
    /\ threads = <<>>
    /\ queue = <<>>
    /\ dialog = None
    /\ mode = None
    /\ processed_files = <<>>
    /\ keys_to_use = <<>>
    /\ pc = "idle"
    /\ i = 0
    /\ success_count = 0
    /\ total_files = 0
    /\ temp_recipients_file = NoPath
    /\ temp_decrypt_path = NoPath
    /\ proc = NoProcess
    /\ return_code = 0
    /\ stderr_output = NoText
    /\ exc = None
    /\ events = <<>>

rfixed == <<mode, processed_files, keys_to_use, pc, i, success_count, total_files,
            temp_recipients_file, temp_decrypt_path, proc, return_code, stderr_output,
            exc, events, uvars, kvars, gvars>>

\* final_output_path = self._find_unique_filename(expected_output_path)
CallResolver ==
    /\ resolver_result = NoPath
    /\ Len(resolver_history) < MaxCalls
    /\ resolver_result' = find_unique_filename(fs, resolver_path)
    /\ resolver_history' = Append(resolver_history, resolver_result')
    /\ UNCHANGED <<fs, resolver_path, rfixed>>

\* The caller creates the file at the returned path (os.rename onto it).
CreateResolved ==
    /\ resolver_result # NoPath
    /\ fs' = WriteFile(fs, resolver_result, Out(Len(resolver_history), FALSE))
    /\ resolver_result' = NoPath
    /\ UNCHANGED <<resolver_path, resolver_history, rfixed>>

NextResolver ==
    \/ CallResolver
    \/ CreateResolved

SpecResolver == ResolverInit /\ [][NextResolver]_vars

(***************************************************************************)
(* AgeGUI._validate_key_file called on its own, on a key file whose lines  *)
(* are edited between the calls by inserting comment-only or blank lines  *)
(* before its first content line.                                          *)
(***************************************************************************)
EMPTY_LINE == <<>>
INDENTED_PUBLIC_LINE == <<" ", "a", "g", "e", "1">>
OTHER_LINE == <<"x", "#">>

\* Lines a key file may hold.
LineSamples ==
    {COMMENT_LINE, INDENTED_COMMENT, BLANK_LINE, EMPTY_LINE, PUBLIC_LINE,
     INDENTED_PUBLIC_LINE, SECRET_LINE, OTHER_LINE}

\* Lines that are blank or hold only a comment.
IgnoredSamples == {COMMENT_LINE, INDENTED_COMMENT, BLANK_LINE, EMPTY_LINE}

KeyTypes == {"public", "private", "other"}

\* The index of the first line that is neither blank nor a comment, and
\* Len + 1 when there is none.
FirstContentIndex(lines) ==
    LET real == {n \in 1..Len(lines) :
                    Strip(lines[n]) # <<>> /\ Strip(lines[n])[1] # "#"}
    IN  IF real = {} THEN Len(lines) + 1
        ELSE CHOOSE n \in real : \A m \in real : n <= m

InsertAt(lines, n, line) ==
    SubSeq(lines, 1, n - 1) \o <<line>> \o SubSeq(lines, n, Len(lines))

ValidatorInit ==
    /\ validator_lines \in SeqsOf(LineSamples, 0, MaxKeyLines)
    /\ validator_type \in KeyTypes
    /\ validator_results = <<>>
    /\ NoWalkCalls
    /\ resolver_path = NoPath
    /\ resolver_result = NoPath
    /\ resolver_history = <<>>
    /\ fs = <<>>
    /\ gui = None
    /\ threads = <<>>
    /\ queue = <<>>
    /\ dialog = None
    /\ mode = None
    /\ processed_files = <<>>
    /\ keys_to_use = <<>>
    /\ pc = "idle"
    /\ i = 0
    /\ success_count = 0
    /\ total_files = 0
    /\ temp_recipients_file = NoPath
    /\ temp_decrypt_path = NoPath
    /\ proc = NoProcess
    /\ return_code = 0
    /\ stderr_output = NoText
    /\ exc = None
    /\ events = <<>>

\* self._validate_key_file(p, key_type) on the file as it is now.
CallValidator ==
    /\ Len(validator_results) < MaxValidations
    /\ validator_results' =
           Append(validator_results, validate_key_lines(validator_lines, validator_type))
    /\ UNCHANGED <<validator_lines, validator_type, wvars, uvars, rvars, gvars>>

\* The file is edited: a comment-only or blank line goes in before the
\* first content line.
InsertIgnoredLine ==
    /\ validator_results # <<>>
    /\ Len(validator_lines) < MaxKeyLines + MaxInserted
    /\ \E line \in IgnoredSamples, n \in 1..FirstContentIndex(validator_lines) :
           validator_lines' = InsertAt(validator_lines, n, line)
    /\ UNCHANGED <<validator_type, validator_results, wvars, uvars, rvars, gvars>>

NextValidator ==
    \/ CallValidator
    \/ InsertIgnoredLine

SpecValidator == ValidatorInit /\ [][NextValidator]_vars

(***************************************************************************)
(* AgeGUI._get_files_recursive called on its own, on the tree TreeFiles.   *)
(***************************************************************************)
D_HIDDEN_DIR == <<"d", "/", ".", "s">>

\* Paths that may be handed to the call: files, directories, hidden ones
\* and one that does not exist.
WalkSamples == {A_TXT, B_TXT, D_DIR, DOT_H, D_HIDDEN_DIR, D_HIDDEN_X, K_PUB, K_GONE}

WalkerInit ==
    /\ walk_paths \in SeqsOf(WalkSamples, 1, MaxDropped)
    /\ walk_results = <<>>
    /\ NoKeyCalls
    /\ resolver_path = NoPath
    /\ resolver_result = NoPath
    /\ resolver_history = <<>>
    /\ fs = <<>>
    /\ gui = None
    /\ threads = <<>>
    /\ queue = <<>>
    /\ dialog = None
    /\ mode = None
    /\ processed_files = <<>>
    /\ keys_to_use = <<>>
    /\ pc = "idle"
    /\ i = 0
    /\ success_count = 0
    /\ total_files = 0
    /\ temp_recipients_file = NoPath
    /\ temp_decrypt_path = NoPath
    /\ proc = NoProcess
    /\ return_code = 0
    /\ stderr_output = NoText
    /\ exc = None
    /\ events = <<>>

\* collected_files = self._get_files_recursive(paths)
CallWalker ==
    /\ walk_results = <<>>
    /\ walk_results' = <<get_files_recursive(walk_paths)>>
    /\ UNCHANGED <<walk_paths, wvars, uvars, rvars, kvars>>

NextWalker == CallWalker

SpecWalker == WalkerInit /\ [][NextWalker]_vars

(***************************************************************************)
(* Reading the event stream.                                               *)
(***************************************************************************)
N == Len(processed_files)

EventsOf(signal) == {n \in 1..Len(events) : events[n].sig = signal}

\* The 0-based index of the file whose iteration emitted event n.
FileOfEvent(n) == Cardinality({m \in EventsOf("process_starting") : m <= n}) - 1

\* File k (0-based) ended in an error (a failure or a timeout).
Failed(k) == \E n \in EventsOf("error") : FileOfEvent(n) = k

IsTimeoutError(e) == e.sig = "error" /\ e.msg = MSG_TIMEOUT

\* The ephemeral artifacts of file k (0-based): its recipient list and its
\* temporary decrypt output.
RecipientsOf(k) == TempRecipientsPath(processed_files[k + 1], k)
TempOutputOf(k) == TempDecryptPath(processed_files[k + 1])
EphemeralGone(k) == ~exists(fs, RecipientsOf(k)) /\ ~exists(fs, TempOutputOf(k))

(***************************************************************************)
(* C1.  Failure isolation: whatever the per-file outcomes, every file of   *)
(* the batch is attempted.  When the batch has finished, exactly one       *)
(* process_starting event was emitted per file, in order, each carrying    *)
(* the file's name, and total_files is still the batch size; before that,  *)
(* an error on file i leaves the loop ready to go on with file i+1.        *)
(***************************************************************************)
C1_EveryFileAttempted ==
    /\ pc = "done" =>
          /\ Cardinality(EventsOf("process_starting")) = N
          /\ \A n \in EventsOf("process_starting") :
                events[n].name = basename(processed_files[FileOfEvent(n) + 1])
          /\ total_files = N
    /\ \A n \in EventsOf("error") :
          \/ FileOfEvent(n) = N - 1
          \/ Cardinality(EventsOf("process_starting")) > FileOfEvent(n) + 1
          \/ pc \in {"finally", "cleanup"} /\ i = FileOfEvent(n)
          \/ pc = "loop" /\ i = FileOfEvent(n) + 1

\* A finished batch of two files whose first file failed.
C1_Witness ==
    /\ pc = "done"
    /\ N >= 2
    /\ Failed(0)
    /\ Cardinality(EventsOf("process_starting")) = N

(***************************************************************************)
(* C2.  Ephemeral-artifact removal: whenever an iteration has ended (the   *)
(* worker is at the loop head or has emitted finished), the recipient-list *)
(* file and the temporary decrypt output of every file processed so far do *)
(* not exist.                                                               *)
(***************************************************************************)
C2_EphemeralRemoved ==
    pc \in {"loop", "done"} => \A k \in 0..(i - 1) : EphemeralGone(k)

\* An iteration that created a recipient list and ran the engine has ended,
\* and one that left a temporary decrypt output behind (rename failure).
C2_Witness ==
    /\ pc = "loop"
    /\ i >= 1
    /\ \/ mode = "encrypt" /\ proc.state \in {"exited", "killed"}
       \/ mode = "decrypt" /\ \E n \in EventsOf("error") : events[n].msg = MSG_RENAME

(***************************************************************************)
(* C3.  No partial output is left behind: after the batch has finished,    *)
(* no file written by the engine invocation of a file that ended in an     *)
(* error (failure or timeout) is on disk, in either mode.                  *)
(***************************************************************************)
C3_NoOutputOfFailedFile ==
    pc = "done" =>
       \A p \in DOMAIN fs : fs[p].kind = "out" => ~Failed(fs[p].by)

(***************************************************************************)
(* C4.  No colliding output: no step of the batch puts an output at a path *)
(* that already exists (a file that was there before the batch, or the     *)
(* output of an earlier file of the same batch).                           *)
(***************************************************************************)
C4_NoOverwrite ==
    [][\A p \in (DOMAIN fs) \cap (DOMAIN fs') :
           fs'[p].kind = "out" => fs'[p] = fs[p]]_vars

(***************************************************************************)
(* C5.  Timeout handling: a file whose engine does not exit within the     *)
(* ceiling has its process killed; exactly one error event, carrying the   *)
(* timeout diagnostic, is emitted for it (directly after its               *)
(* process_starting, directly followed by its progress event);             *)
(* success_count does not change during its iteration; its ephemeral files *)
(* are gone when the iteration has ended; and the batch goes on: the next  *)
(* event after its progress is the next file's process_starting, or        *)
(* finished when it was the last file.                                      *)
(***************************************************************************)
\* The current file's iteration is one that timed out.
TimedOutNow ==
    \/ exc = MSG_TIMEOUT
    \/ pc = "finally" /\ Len(events) >= 1 /\ IsTimeoutError(events[Len(events)])
    \/ pc = "cleanup" /\ Len(events) >= 2 /\ IsTimeoutError(events[Len(events) - 1])

C5_TimeoutState ==
    /\ exc = MSG_TIMEOUT => proc.state = "killed" /\ pc = "except"
    /\ \A n \in EventsOf("error") : IsTimeoutError(events[n]) =>
          /\ n > 1
          /\ events[n - 1] = ProcessStarting(events[n].name)
          /\ n < Len(events) => events[n + 1] = ProgressUpdate(FileOfEvent(n) + 1, N)
          /\ n + 1 < Len(events) =>
                IF FileOfEvent(n) + 1 < N
                THEN events[n + 2] =
                        ProcessStarting(basename(processed_files[FileOfEvent(n) + 2]))
                ELSE events[n + 2].sig = "finished"
          /\ (pc \in {"loop", "done"} /\ i > FileOfEvent(n)) => EphemeralGone(FileOfEvent(n))

C5_TimeoutStep ==
    (TimedOutNow \/ TimedOutNow') => success_count' = success_count

C5_Timeout == []C5_TimeoutState /\ [][C5_TimeoutStep]_vars

\* A finished batch whose first file timed out (the engine had written part
\* of its output) and whose second file was then processed.
C5_Witness ==
    /\ pc = "done"
    /\ N >= 2
    /\ \E n \in EventsOf("error") : IsTimeoutError(events[n]) /\ FileOfEvent(n) = 0

(***************************************************************************)
(* C6.  Outcome accounting: each file yields exactly one outcome.  At any  *)
(* time success_count plus the number of error events is the number of     *)
(* files whose outcome is decided; the finished event reports              *)
(* totalCount = N and a successCount with successCount + errors = N; when  *)
(* no engine process could ever be spawned or exit with code 0, the        *)
(* successCount is 0 and there are N error events.                         *)
(***************************************************************************)
\* Files whose outcome is decided: those before i, and the current one once
\* its iteration reached the finally block.
Decided == i + (IF pc \in {"finally", "cleanup"} THEN 1 ELSE 0)

C6_OutcomeAccounting ==
    /\ success_count + Cardinality(EventsOf("error")) = Decided
    /\ \A k \in 0..(N - 1) :
          Cardinality({n \in EventsOf("error") : FileOfEvent(n) = k}) <= 1
    /\ pc = "done" =>
          /\ events[Len(events)] = Finished(success_count, N, mode = "encrypt")
          /\ success_count + Cardinality(EventsOf("error")) = N
          /\ (\A n \in EventsOf("process_starting") : Failed(FileOfEvent(n)))
                => success_count = 0 /\ Cardinality(EventsOf("error")) = N

\* A finished batch of two files with one success and one error.
C6_Witness ==
    /\ pc = "done"
    /\ N >= 2
    /\ success_count = 1
    /\ Cardinality(EventsOf("error")) = 1

(***************************************************************************)
(* C7, C8.  Reading the window's threads and drops.                       *)
(***************************************************************************)
RunningWorkers == {id \in DOMAIN threads : threads[id].running}

\* The collected files of a drop hold a .age file and a file that is not.
HasBothKinds(files) ==
    /\ \E n \in 1..Len(files) : IsAge(files[n])
    /\ \E n \in 1..Len(files) : ~IsAge(files[n])

\* C7: no overlapping batches: whatever the sequence of drops, Clear,
\* Clear Keys and worker signals, at most one AgeWorker of the window is
\* running at any time.
C7_NoOverlappingBatches == Cardinality(RunningWorkers) <= 1

\* C8: a drop in file mode whose collected files hold both a .age file and
\* a file without the extension is rejected as a whole: the step starts no
\* worker, and files_to_process and current_action_mode keep the values they
\* had when the handler was entered (after dropEvent's reset of a finished
\* or error display), so nothing of the drop is taken.
C8_MixedDropRejected ==
    [][\A urls \in DropChoices :
          LET paths == SelectSeq(urls, path_exists)
              w == AfterDropReset(World(gui, threads))
          IN  (/\ dialog = None
               /\ gui.drop_enabled
               /\ files_dropped(urls)
               /\ UNCHANGED <<queue, dialog>>
               /\ HasBothKinds(get_files_recursive(paths)))
              => /\ threads' = threads
                 /\ gui'.worker = gui.worker
                 /\ gui'.files_to_process = w.gui.files_to_process
                 /\ gui'.current_action_mode = w.gui.current_action_mode
                 /\ gui'.files_to_process = <<>>
                 /\ gui'.drop_mode = "error"]_vars

\* A mixed drop has been refused while recipient keys were loaded, so that a
\* pure batch of the same files would have started at once.
C8_Witness ==
    /\ gui.drop_mode = "error"
    /\ gui.drop_text.msg = "ERROR_MIXED_FILES"
    /\ gui.recipients_keys # <<>>
    /\ gui.files_to_process = <<>>
    /\ threads = <<>>

(***************************************************************************)
(* C9.  Event ordering within a batch: the files are processed in the      *)
(* order supplied; for file k the events are process_starting(k), then at  *)
(* most one error(k), then progress_update((k+1)/N), all before            *)
(* process_starting(k+1); the progress fractions are strictly increasing   *)
(* and the last one equals 1.                                               *)
(***************************************************************************)
\* a/b < c/d for positive denominators.
FractionLess(a, b, c, d) == a * d < c * b

C9_EventOrder ==
    /\ \A n \in EventsOf("process_starting") :
          /\ n = 1 \/ events[n - 1].sig = "progress_update"
          /\ events[n].name = basename(processed_files[FileOfEvent(n) + 1])
    /\ \A n \in EventsOf("error") :
          /\ n > 1
          /\ events[n - 1] = ProcessStarting(events[n].name)
    /\ \A n \in EventsOf("progress_update") :
          /\ n > 1
          /\ events[n - 1].sig \in {"process_starting", "error"}
          /\ events[n].num = (FileOfEvent(n) + 1) /\ events[n].den = N
          /\ \A m \in EventsOf("progress_update") :
                m < n => FractionLess(events[m].num, events[m].den,
                                      events[n].num, events[n].den)
    /\ \A n \in EventsOf("finished") :
          /\ n > 1
          /\ events[n - 1].sig = "progress_update"
          /\ events[n - 1].num = events[n - 1].den
    /\ Len(events) >= 1 => events[1].sig = "process_starting"
    /\ pc = "done" => Cardinality(EventsOf("progress_update")) = N

\* A finished batch of two files, the first with an error, the second not.
C9_Witness ==
    /\ pc = "done"
    /\ N >= 2
    /\ Failed(0)
    /\ ~Failed(1)

(***************************************************************************)
(* C10.  Cleanup precedes progress: when the progress event of a file has  *)
(* been emitted, that file's ephemeral artifacts (its recipient list, its  *)
(* temporary decrypt output) are no longer on disk.                        *)
(***************************************************************************)
C10_CleanupBeforeProgress ==
    \A n \in EventsOf("progress_update") :
       FileOfEvent(n) = Cardinality(EventsOf("process_starting")) - 1
          => EphemeralGone(FileOfEvent(n))

(***************************************************************************)
(* C11.  Decrypt success postcondition.                                    *)
(***************************************************************************)
\* The worker is about to evaluate a decrypt result with exit code 0.
DecryptExitZero == pc = "check" /\ mode = "decrypt" /\ return_code = 0

\* The step renamed the temporary output to the resolver's path and counted
\* the file.
RenamedAndCounted ==
    LET final == find_unique_filename(fs, OutputPathBase(input_path))
    IN  /\ ~exists(fs, final)
        /\ exists(fs', final)
        /\ fs'[final] = fs[temp_decrypt_path]
        /\ ~exists(fs', temp_decrypt_path)
        /\ \A p \in DOMAIN fs : p # temp_decrypt_path => exists(fs', p) /\ fs'[p] = fs[p]
        /\ DOMAIN fs' = ((DOMAIN fs) \ {temp_decrypt_path}) \cup {final}
        /\ success_count' = success_count + 1
        /\ pc' = "finally"

\* The step raised `msg` for the file without counting it or touching the disk.
RaisedUncounted(msg) ==
    /\ pc' = "except"
    /\ exc' = msg
    /\ success_count' = success_count
    /\ fs' = fs

\* The exception handler emits one error for the current file and counts
\* nothing.
ErrorEmittedUncounted ==
    pc = "except" =>
        /\ events' = Append(events, ErrorEvent(current_file_name, exc))
        /\ success_count' = success_count

\* C11 (as claimed): in decrypt mode an exit code 0 counts as a success if
\* and only if the temporary output exists: when it exists it is renamed to
\* the path the resolver returns for the intended final path and is gone
\* afterwards; when it is missing an error is emitted for the file and
\* success_count is not incremented.
C11_SuccessIffTempExists ==
    [][/\ DecryptExitZero =>
            IF exists(fs, temp_decrypt_path)
            THEN RenamedAndCounted
            ELSE RaisedUncounted(MSG_NO_OUTPUT)
       /\ ErrorEmittedUncounted]_vars

\* C11 (amended): in decrypt mode an exit code 0 counts as a success if and
\* only if the temporary output exists and os.rename to the resolver's path
\* does not raise.  When it is counted the temporary output has been renamed
\* to the resolver's path and no longer exists; when the temporary output is
\* missing, or the rename raises, an error is emitted for the file and
\* success_count is not incremented.
C11_DecryptSuccess ==
    [][/\ DecryptExitZero =>
            IF exists(fs, temp_decrypt_path)
            THEN RenamedAndCounted \/ RaisedUncounted(MSG_RENAME)
            ELSE RaisedUncounted(MSG_NO_OUTPUT)
       /\ ErrorEmittedUncounted]_vars

\* A decrypt file has just been counted: exit code 0, its output sits under
\* a numbered name because the intended path was taken, and the temporary
\* output is gone.
C11_Witness ==
    /\ mode = "decrypt"
    /\ pc = "finally"
    /\ proc.state = "exited"
    /\ return_code = 0
    /\ success_count >= 1
    /\ ~exists(fs, temp_decrypt_path)
    /\ exists(fs, OutputPathBase(input_path))
    /\ \E p \in DOMAIN fs :
          /\ fs[p] = Out(i, FALSE)
          /\ p # OutputPathBase(input_path)

(***************************************************************************)
(* C12, C13.  The unique path resolver, read against what the desired      *)
(* paths of the model are expected to give.                                *)
(***************************************************************************)
\* Decimal numerals below 100.
DigitChars == <<"0", "1", "2", "3", "4", "5", "6", "7", "8", "9">>
Numeral(k) ==
    IF k < 10 THEN <<DigitChars[k + 1]>>
    ELSE <<DigitChars[(k \div 10) + 1], DigitChars[(k % 10) + 1]>>

\* Directory, base name without ` (N)`, extension, and the first number to
\* try, of each desired path.
ExpectedParts(p) ==
    CASE p = X -> [dir |-> <<>>, base |-> <<"x">>, ext |-> <<>>, start |-> 1, numbered |-> FALSE]
      [] p = X_1 -> [dir |-> <<>>, base |-> <<"x">>, ext |-> <<>>, start |-> 2, numbered |-> TRUE]
      [] p = X_9 -> [dir |-> <<>>, base |-> <<"x">>, ext |-> <<>>, start |-> 10, numbered |-> TRUE]
      [] p = X_01 -> [dir |-> <<>>, base |-> <<"x">>, ext |-> <<>>, start |-> 2, numbered |-> TRUE]
      [] p = D_X_1_T -> [dir |-> <<"d", "/">>, base |-> <<"x">>, ext |-> <<".", "t">>,
                         start |-> 2, numbered |-> TRUE]

\* `base (k).ext` in the directory of p.
Candidate(p, k) ==
    LET e == ExpectedParts(p)
    IN  e.dir \o e.base \o <<" ", "(">> \o Numeral(k) \o <<")">> \o e.ext

\* The numbers a call may have to try on the disk f.
Tries(p, f) == ExpectedParts(p).start .. (ExpectedParts(p).start + Cardinality(DOMAIN f))

\* r is what the contract asks of a call for p on the disk f.
ResolvedRight(p, f, r) ==
    /\ ~exists(f, r)
    /\ ~exists(f, p) => r = p
    /\ exists(f, p) =>
          \E k \in Tries(p, f) :
             /\ r = Candidate(p, k)
             /\ \A j \in ExpectedParts(p).start .. (k - 1) : exists(f, Candidate(p, j))

\* C12: for any desired path and any finite set of existing files the
\* resolver returns (within as many probes as there are files, plus one) a
\* path that does not exist at return time: the desired path itself when it
\* does not exist, otherwise `base (k).ext` in the same directory for the
\* smallest k >= start whose path does not exist, where start is 1, or N + 1
\* when the name already ends in ` (N)`.
C12_UniquePathResolver ==
    resolver_result # NoPath => ResolvedRight(resolver_path, fs, resolver_result)

\* The desired path exists, and so do the first two candidates: the third
\* one is returned.
C12_Witness ==
    /\ resolver_result # NoPath
    /\ exists(fs, resolver_path)
    /\ resolver_result = Candidate(resolver_path, ExpectedParts(resolver_path).start + 2)

\* The files that were on disk before the first call: the paths returned
\* did not exist then, and nothing else is created.
InitialDisk == (DOMAIN fs) \ Range(resolver_history)

\* The desired path existed before the first call and ends in ` (N)`.
ExistingNumbered ==
    /\ ExpectedParts(resolver_path).numbered
    /\ resolver_path \in InitialDisk

\* The N of the desired path.
GivenNumber == ExpectedParts(resolver_path).start - 1

\* The paths that existed when call j was made.
DiskAtCall(j) == InitialDisk \cup {resolver_history[h] : h \in 1..(j - 1)}

\* C13 (as claimed): for an existing desired path ending in ` (N)`,
\* resolving it repeatedly and creating each returned file yields the
\* suffixes N+1, N+2, N+3, ... on the stripped base name, each one more than
\* the last.
C13_SuffixesAdvanceByOne ==
    ExistingNumbered =>
        \A j \in 1..Len(resolver_history) :
           resolver_history[j] = Candidate(resolver_path, GivenNumber + j)

\* C13 (amended): for an existing desired path ending in ` (N)`, resolving
\* it repeatedly and creating each returned file yields, each time, the
\* smallest suffix above N whose path does not exist yet: the suffixes grow
\* strictly and no path is returned twice, and they are exactly N+1, N+2,
\* N+3, ... when none of those paths existed before the first call.
C13_NumberingSequence ==
    ExistingNumbered =>
        /\ \A j \in 1..Len(resolver_history) :
              \E k \in (GivenNumber + 1) .. (GivenNumber + j + Cardinality(InitialDisk)) :
                 /\ resolver_history[j] = Candidate(resolver_path, k)
                 /\ \A m \in (GivenNumber + 1) .. (k - 1) :
                       Candidate(resolver_path, m) \in DiskAtCall(j)
                 /\ \A h \in 1..(j - 1), m \in (GivenNumber + 1) .. k :
                       resolver_history[h] = Candidate(resolver_path, m) => m < k
        /\ \A h, j \in 1..Len(resolver_history) :
              h # j => resolver_history[h] # resolver_history[j]
        /\ (\A m \in 1..Len(resolver_history) :
               Candidate(resolver_path, GivenNumber + m) \notin InitialDisk)
           => \A j \in 1..Len(resolver_history) :
                 resolver_history[j] = Candidate(resolver_path, GivenNumber + j)

\* `x (9)` exists and has been resolved three times with nothing in the way:
\* the calls returned `x (10)`, `x (11)` and `x (12)`.
C13_Witness ==
    /\ ExistingNumbered
    /\ resolver_path = X_9
    /\ Len(resolver_history) = 3
    /\ resolver_history = <<Candidate(X_9, 10), Candidate(X_9, 11), Candidate(X_9, 12)>>

(***************************************************************************)
(* C14.  Decrypt output path.                                              *)
(***************************************************************************)
\* The input path without its last four characters (the extension).
WithoutExtension(p) == SubSeq(p, 1, Len(p) - 4)

\* C14: for every decrypt input whose name ends with .age in any letter
\* case the intended final output path is the input path with the extension
\* removed, and so differs from the input path; only an input without the
\* extension gets `.decrypted` appended.  Read where the worker has built
\* the decrypt command of the current file.
C14_DecryptOutputPath ==
    (mode = "decrypt" /\ pc \in {"spawn", "communicate", "check"}) =>
        /\ temp_decrypt_path = TempDecryptPath(input_path)
        /\ IF IsAge(input_path)
           THEN /\ OutputPathBase(input_path) = WithoutExtension(input_path)
                /\ OutputPathBase(input_path) # input_path
           ELSE OutputPathBase(input_path) = input_path \o DotDecrypted

(***************************************************************************)
(* C15.  Builder failure spawns nothing.                                   *)
(***************************************************************************)
\* Every line of key file k is blank or a comment.
OnlyComments(k) ==
    \A n \in 1..Len(KeyFiles[k]) :
       LET line == KeyFiles[k][n]
           inked == {c \in 1..Len(line) : line[c] # " "}
       IN  inked # {} => line[CHOOSE c \in inked : \A d \in inked : c <= d] = "#"

\* No invocation can be built for the files of this batch: there is no key,
\* or (encrypt) no key exists with a recipient line in it.
CannotBuild ==
    \/ keys_to_use = <<>>
    \/ /\ mode = "encrypt"
       /\ \A n \in 1..Len(keys_to_use) :
             keys_to_use[n] \notin DOMAIN KeyFiles \/ OnlyComments(keys_to_use[n])

BuilderMessages == {MSG_NO_RECIPIENT_KEY, MSG_NO_VALID_RECIPIENTS, MSG_NO_IDENTITY_KEY}

IsBuilderError(e) == e.sig = "error" /\ e.msg \in BuilderMessages

\* What the event stream and the disk show of a file whose builder failed.
C15_BuilderState ==
    /\ total_files = N
    /\ \A n \in EventsOf("error") : IsBuilderError(events[n]) =>
          /\ n > 1
          /\ events[n - 1] = ProcessStarting(events[n].name)
          /\ Cardinality({m \in EventsOf("error") : FileOfEvent(m) = FileOfEvent(n)}) = 1
          /\ (pc \in {"loop", "done"} /\ i > FileOfEvent(n)) => EphemeralGone(FileOfEvent(n))
          /\ pc = "done" =>
                /\ Cardinality(EventsOf("process_starting")) = N
                /\ events[Len(events)].sig = "finished"
                /\ events[Len(events)].total = N

\* The steps of a file whose builder fails: the builder raises instead of
\* reaching Popen, and no process is created while the failure is handled
\* and cleaned up; a process is only ever created for a command that was
\* built.
C15_BuilderStep ==
    /\ (pc = "build" /\ CannotBuild) =>
          /\ pc' = "except"
          /\ exc' # None
          /\ proc' = proc
    /\ pc \in {"except", "finally", "cleanup"} => proc' = proc
    /\ (proc' # proc /\ proc'.state = "running") => (pc = "spawn" /\ ~CannotBuild)
    /\ pc = "except" =>
          /\ events' = Append(events, ErrorEvent(current_file_name, exc))
          /\ pc' = "finally"

\* C15: when the invocation cannot be built for a file (an empty key list
\* in either mode, or a recipient list that comes out empty because no key
\* file exists or all content is comments) no engine process is spawned for
\* the file, exactly one error is emitted for it, its temporary files are
\* removed, and the batch goes on with the remaining files, total_files
\* staying N.
C15_BuilderFailure == []C15_BuilderState /\ [][C15_BuilderStep]_vars

\* An encrypt batch of two files with keys that hold no recipient: both
\* files were started and reported, nothing was ever spawned, and no
\* recipient list is left.
C15_Witness ==
    /\ pc = "done"
    /\ N = 2
    /\ keys_to_use # <<>>
    /\ CannotBuild
    /\ proc = NoProcess
    /\ \A k \in 0..1 :
          /\ \E n \in EventsOf("error") :
                FileOfEvent(n) = k /\ events[n].msg = MSG_NO_VALID_RECIPIENTS
          /\ EphemeralGone(k)

(***************************************************************************)
(* C16.  Distinct UI states per summary.                                   *)
(***************************************************************************)
\* The event loop is delivering a finished signal to _on_finished.
FinishedDelivered ==
    /\ queue # <<>>
    /\ Head(queue).sig = "finished"
    /\ queue' = Tail(queue)

\* C16: after _on_finished returns the three summaries show as three
\* different states of the drop target and the status text: all succeeded
\* (success = total > 0) shows the finished mode, an aborted batch
\* (total = 0) shows its terminated state, and a partial or failed batch
\* (success < total) leaves the drop target in error mode reporting the
\* number of failed files.
C16_DistinctSummaryStates ==
    [][FinishedDelivered =>
          LET success == Head(queue).success
              total == Head(queue).total
          IN  CASE total = 0 ->
                      /\ gui'.drop_mode = "error"
                      /\ gui'.status = Text("STATUS_TERMINATED", "", 0)
                [] total > 0 /\ success = total ->
                      /\ gui'.drop_mode = "finished"
                      /\ gui'.status.text = "STATUS_FINISHED_KEYS"
                [] total > 0 /\ success # total ->
                      /\ gui'.drop_mode = "error"
                      /\ gui'.drop_text = Text("DROP_ERROR", "ERROR_FILES_FAIL", total - success)]_vars

(***************************************************************************)
(* C17.  Batch completion.                                                 *)
(***************************************************************************)
\* The finished event is emitted once, when run() ends, after every other
\* event of the batch.
FinishedOnceAndLast ==
    /\ Cardinality(EventsOf("finished")) = (IF pc = "done" THEN 1 ELSE 0)
    /\ pc = "done" => events[Len(events)].sig = "finished"

\* C17: every started batch goes from running to completed exactly once:
\* it eventually emits exactly one finished event, and that event is the
\* last event of the batch, after every process_starting, error and
\* progress_update, given that each engine process exits or is killed at
\* the timeout.
C17_BatchCompletes ==
    /\ <>(pc = "done")
    /\ []FinishedOnceAndLast

\* A batch of two files has completed although the engine hung on the last
\* one and was killed: finished follows the progress event of that file.
C17_Witness ==
    /\ pc = "done"
    /\ N = 2
    /\ proc.state = "killed"
    /\ Len(events) >= 2
    /\ events[Len(events)].sig = "finished"
    /\ events[Len(events) - 1] = ProgressUpdate(N, N)

(***************************************************************************)
(* C18.  Batch aborts are pre-flight only.                                 *)
(***************************************************************************)
\* A file of the batch was attempted before event n: a process_starting
\* event precedes it, or an engine process was spawned.
AttemptedBefore(n) ==
    \/ \E m \in EventsOf("process_starting") : m < n
    \/ proc # NoProcess

\* C18: a finished event with totalCount = 0 is emitted only when no file
\* of the batch was attempted (no process_starting event, no engine process
\* spawned); once any file has been attempted the reported totalCount is N
\* and successCount <= totalCount.
C18_AbortsPreflightOnly ==
    \A n \in EventsOf("finished") :
        /\ events[n].total = 0 => ~AttemptedBefore(n)
        /\ AttemptedBefore(n) =>
               /\ events[n].total = N
               /\ events[n].success <= events[n].total

\* A batch of two files, both attempted, one of them failed, has reported.
C18_Witness ==
    /\ pc = "done"
    /\ N = 2
    /\ Failed(0)
    /\ ~Failed(1)
    /\ proc # NoProcess
    /\ events[Len(events)] = Finished(1, 2, mode = "encrypt")

(***************************************************************************)
(* C19.  Batch request key invariant.                                      *)
(***************************************************************************)
\* The key type the worker's mode requires.
RequiredKeyType(worker_mode) == IF worker_mode = "encrypt" THEN "public" ELSE "private"

\* The request a worker was constructed with is well formed.
WellFormedRequest(th) ==
    /\ th.files_to_process # <<>>
    /\ th.keys_to_use # <<>>
    /\ \A k \in 1..Len(th.keys_to_use) :
           validate_key_file(th.keys_to_use[k], RequiredKeyType(th.mode))

AgeCarriers(files) == {n \in 1..Len(files) : IsAge(files[n])}

\* A worker's input list agrees with its mode.
InputsMatchMode(th) ==
    /\ th.mode \in {"encrypt", "decrypt"}
    /\ th.mode = "decrypt" => AgeCarriers(th.files_to_process) = 1..Len(th.files_to_process)
    /\ th.mode = "encrypt" => AgeCarriers(th.files_to_process) = {}

\* The files collected by an accepted drop decide the mode.
CollectedDecideMode ==
    gui.files_to_process # <<>> =>
        (gui.current_action_mode = "decrypt"
            <=> AgeCarriers(gui.files_to_process) = 1..Len(gui.files_to_process))

\* C20: for any sequence of UI events, every worker started in decrypt mode
\* has an input list in which all files carry the .age extension, and every
\* worker started in encrypt mode has an input list in which no file
\* carries it; the mode is decrypt exactly when all collected files carry
\* the extension.
C20_ModeMatchesExtension ==
    /\ \A t \in 1..Len(threads) : InputsMatchMode(threads[t])
    /\ CollectedDecideMode

\* A decrypt worker with two inputs, one of them with an upper-case
\* extension, was started after an encrypt worker with an input.
C20_Witness ==
    /\ Len(threads) = 2
    /\ threads[1].mode = "encrypt"
    /\ threads[1].files_to_process # <<>>
    /\ threads[2].mode = "decrypt"
    /\ Len(threads[2].files_to_process) = 2
    /\ B_UPPER_AGE \in Range(threads[2].files_to_process)

(***************************************************************************)
(* C21.  Key validator stability.                                          *)
(***************************************************************************)
\* What the first content line of the file decides for the type asked.
FirstLineVerdict ==
    LET n == FirstContentIndex(validator_lines)
        first == IF n <= Len(validator_lines) THEN LStrip(validator_lines[n]) ELSE <<>>
    IN  CASE validator_type = "public" -> StartsWith(first, AGE1)
          [] validator_type = "private" -> StartsWith(first, AGE_SECRET_KEY)
          [] OTHER -> FALSE

\* C21: _validate_key_file depends only on the first line that is neither
\* empty nor a comment (public valid iff it starts with `age1`, private
\* valid iff it starts with `AGE-SECRET-KEY-`); inserting any number of
\* comment-only or blank lines before the real key line never changes the
\* result, and re-running on unchanged content gives the same result.
C21_ValidatorStable ==
    \A n \in 1..Len(validator_results) :
        /\ validator_results[n] = validator_results[1]
        /\ validator_results[n] = FirstLineVerdict

\* A public key file was accepted, two ignored lines were inserted before
\* its key line, and it was validated again after each insertion.
C21_Witness ==
    /\ validator_type = "public"
    /\ Len(validator_results) = MaxValidations
    /\ validator_results[1]
    /\ Len(validator_lines) = MaxKeyLines + MaxInserted
    /\ FirstContentIndex(validator_lines) >= 3
    /\ COMMENT_LINE \in Range(validator_lines)

(***************************************************************************)
(* C22.  Hidden entries are ignored when collecting files.                 *)
(***************************************************************************)
\* Some component of the relative path starts with a dot.
HasHiddenComponent(rel) ==
    \E k \in 1..Len(rel) : rel[k] = "." /\ (k = 1 \/ rel[k - 1] = "/")

\* File f lies below the dropped directory p, under a hidden folder or
\* under a hidden name of its own.
HiddenBelow(f, p) ==
    /\ StartsWith(f, p \o <<"/">>)
    /\ HasHiddenComponent(SubSeq(f, Len(p) + 2, Len(f)))

\* C22: for any dropped paths and any directory tree, the list returned by
\* _get_files_recursive contains no file whose own name starts with `.`
\* and no file located inside a folder (at any depth below a dropped
\* directory) whose name starts with `.`.
C22_HiddenIgnored ==
    \A r \in 1..Len(walk_results) : \A n \in 1..Len(walk_results[r]) :
        /\ basename(walk_results[r][n])[1] # "."
        /\ \A d \in 1..Len(walk_paths) : ~HiddenBelow(walk_results[r][n], walk_paths[d])

(***************************************************************************)
(* C23.  Controls are locked while a batch runs.                           *)
(***************************************************************************)
\* Some worker was started and its finished event is not handled yet: the
\* worker has not emitted it, or it waits in the queue.
BatchInProgress ==
    \/ \E t \in 1..Len(threads) : ~threads[t].finished_emitted
    \/ \E n \in 1..Len(queue) : queue[n].sig = "finished"

\* C23: from the moment _start_process starts a worker until _on_finished
\* handles that worker's finished event, the drop target, the Clear button
\* and the Clear Keys button are all disabled, so no reset, key clearing or
\* drop can be triggered during the run.
C23_ControlsLocked ==
    BatchInProgress =>
        /\ ~gui.drop_enabled
        /\ ~gui.btn_clear_enabled
        /\ ~gui.btn_clear_keys_enabled

(***************************************************************************)
(* C24.  Worker input is a snapshot.                                       *)
(***************************************************************************)
\* The request of a worker: what it processes.
RequestOf(th) == <<th.mode, th.files_to_process, th.keys_to_use>>

\* Every worker that exists keeps its request over the step.
RequestsKept ==
    \A t \in 1..Len(threads) : RequestOf(threads'[t]) = RequestOf(threads[t])

\* A worker created by the step has the mode, files and keys the window
\* holds when _start_process returns.
RequestsTaken ==
    \A t \in (Len(threads) + 1)..Len(threads') :
        RequestOf(threads'[t]) =
            <<gui'.current_action_mode, gui'.files_to_process, gui'.keys>>

\* C24: the files and keys a running AgeWorker processes are exactly those
\* held by the UI when _start_process created it; no UI action interleaved
\* with the run (_reset_state_ui, clearing keys, further drops,
\* _on_finished of another batch) changes the worker's file list, key list
\* or mode.
C24_WorkerInputSnapshot ==
    [][/\ Len(threads') >= Len(threads)
       /\ RequestsKept
       /\ RequestsTaken]_vars

\* A worker with files left to process runs while the window, reset by
\* Clear Keys and given another drop, holds other files and no keys.
C24_Witness ==
    /\ Len(threads) = 1
    /\ threads[1].running
    /\ threads[1].done_files < Len(threads[1].files_to_process)
    /\ threads[1].keys_to_use # <<>>
    /\ gui.keys = <<>>
    /\ gui.files_to_process # <<>>
    /\ gui.files_to_process # threads[1].files_to_process

(***************************************************************************)
(* C25.  Identity keys are never persisted.                                *)
(***************************************************************************)
\* The key paths a settings file holds.
PersistedPaths(settings) ==
    {p \in Range(SplitPaths(settings.paths)) : p # <<>>}

\* Every recipient key the window holds validates as a public key.
RecipientsArePublic ==
    \A k \in 1..Len(gui.recipients_keys) :
        validate_key_file(gui.recipients_keys[k], "public")

\* A step that writes the settings writes paths of public keys only.
SettingsWrittenPublic ==
    gui'.settings # gui.settings =>
        \A p \in PersistedPaths(gui'.settings) : validate_key_file(p, "public")

\* C25: for any sequence of UI events, every key path written to the
\* persistent settings or stored in recipients_keys was validated as a
\* public key at the time of writing; identity (private) key paths dropped
\* for decryption are never written to settings and never added to
\* recipients_keys.
C25_IdentityKeysNotPersisted ==
    /\ []RecipientsArePublic
    /\ [][SettingsWrittenPublic]_vars

\* An identity key was dropped for a decrypt batch after a public key had
\* been dropped and saved for an encrypt batch.
C25_Witness ==
    /\ Len(threads) = 2
    /\ threads[1].mode = "encrypt"
    /\ threads[2].mode = "decrypt"
    /\ threads[2].keys_to_use = <<K_SEC>>
    /\ gui.keys = <<K_SEC>>
    /\ gui.recipients_keys = <<K_PUB>>
    /\ PersistedPaths(gui.settings) = {K_PUB}

(***************************************************************************)
(* C26.  Operation keys are not retained.                                  *)
(***************************************************************************)
\* A decrypt worker created by the step was started by a key drop: the
\* window was waiting for keys.
DecryptStartedByKeyDrop ==
    \A t \in (Len(threads) + 1)..Len(threads') :
        threads'[t].mode = "decrypt" => gui.key_pending

\* C26: whenever no worker is running and the finished event of the last
\* batch has been handled, the per-operation key list self.keys is empty,
\* after a fully successful batch, after a batch with failures, after an
\* aborted batch and after Clear alike, so every decryption requires its
\* identity keys to be dropped again.
C26_OperationKeysNotRetained ==
    /\ [](~BatchInProgress => gui.keys = <<>>)
    /\ [][~BatchInProgress => DecryptStartedByKeyDrop]_vars

\* A decrypt batch that succeeded and one that had a failure have both
\* been handled.
C26_Witness ==
    /\ Len(threads) = 2
    /\ ~BatchInProgress
    /\ \A t \in {1, 2} : threads[t].mode = "decrypt" /\ ~threads[t].running
    /\ threads[1].success_count = Len(threads[1].files_to_process)
    /\ threads[2].success_count < Len(threads[2].files_to_process)
    /\ gui.keys = <<>>

(***************************************************************************)
(* C27.  Key-pending invariant.                                            *)
(***************************************************************************)
\* While the window waits for keys it holds the files and the mode of the
\* batch to start.
PendingHoldsBatch ==
    gui.key_pending =>
        /\ gui.files_to_process # <<>>
        /\ gui.current_action_mode \in {"encrypt", "decrypt"}

\* dropEvent resets the window before it takes a drop made on a finished
\* or error display.
DropResets == gui.drop_mode \in {"finished", "error"}

\* A user action that leaves the window waiting, a drop that resets it
\* apart, changes neither the files nor the mode and starts no worker.
PendingKeepsBatch ==
    (gui.key_pending /\ gui'.key_pending /\ UNCHANGED <<queue, dialog>> /\ ~DropResets) =>
        /\ gui'.files_to_process = gui.files_to_process
        /\ gui'.current_action_mode = gui.current_action_mode
        /\ Len(threads') = Len(threads)

\* The wait ends with a worker started for the pending batch or with a
\* reset.
PendingLeftByStartOrReset ==
    (gui.key_pending /\ ~gui'.key_pending) =>
        \/ /\ Len(threads') = Len(threads) + 1
           /\ threads'[Len(threads')].files_to_process = gui.files_to_process
           /\ threads'[Len(threads')].mode = gui.current_action_mode
        \/ /\ Len(threads') = Len(threads)
           /\ gui'.files_to_process = <<>>
           /\ gui'.current_action_mode = None
           /\ gui'.keys = <<>>
        \/ DropResets

\* C27: whenever _key_pending is true, files_to_process is non-empty and
\* current_action_mode is `encrypt` or `decrypt`; while it is true a file
\* drop changes neither files_to_process nor current_action_mode and starts
\* no worker, and the pending state is left only by a fully valid key drop
\* (which starts the batch) or by a reset.
C27_KeyPending ==
    /\ []PendingHoldsBatch
    /\ [][PendingKeepsBatch /\ PendingLeftByStartOrReset]_vars

(***************************************************************************)
(* C28.  An invalid key drop changes nothing.                              *)
(***************************************************************************)
\* The handler of a key drop with a file that fails validation is being
\* run: it opens the error dialog, or the dialog is open and the handler
\* waits in QMessageBox.critical for it to be closed, or it is closed and
\* the handler restores the key display and returns.
InvalidKeyDropOpens == dialog = None /\ dialog' = "invalid_keys"
InInvalidKeyDrop == InvalidKeyDropOpens \/ dialog = "invalid_keys"

\* The keys, the settings and the pending batch of the window.
KeyStateOf(g) ==
    <<g.keys, g.recipients_keys, g.settings, g.files_to_process,
      g.current_action_mode, g.key_pending>>

\* C28: a key drop that contains at least one file failing validation for
\* the required type (even alongside valid keys) starts no worker and
\* leaves self.keys, recipients_keys, the persisted settings,
\* files_to_process, current_action_mode and _key_pending (still true)
\* unchanged.
C28_InvalidKeyDropChangesNothing ==
    [][InInvalidKeyDrop =>
          /\ Len(threads') = Len(threads)
          /\ KeyStateOf(gui') = KeyStateOf(gui)
          /\ gui'.key_pending]_vars

====
